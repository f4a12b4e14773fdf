--------------------------- MODULE SignatureWindow ---------------------------
(***************************************************************************)
(* The timestamp window of VerificationService.ValidateSignature           *)
(* (src/internal/core/service.go 137-146), as a pure operator on Go int64  *)
(* seconds, checked against the window the spec states (spec 8: a message *)
(* signed at now - 300 s verifies, at now - 301 s or in the future it does *)
(* not).  The client chooses the timestamp (any int64 in the JSON body);   *)
(* the server's clock reads a positive time far below the int64 maximum.   *)
(* The width of int64 is the constant Width, so the wrap of a subtraction  *)
(* keeps its shape at a size TLC can enumerate.                            *)
(***************************************************************************)
EXTENDS Integers

CONSTANTS
    Width,    \* bits of a Go int64 (64)
    MaxAge,   \* maxAge: 5 minutes in seconds (300)
    Nows      \* values time.Now().Unix() may return

ASSUME Width \in Nat \ {0} /\ MaxAge \in Nat
ASSUME \A n \in Nows : 0 < n /\ n + MaxAge < 2^(Width - 1)

\* the int64 values
Int64 == -(2^(Width - 1)) .. 2^(Width - 1) - 1

\* Go's two's-complement int64 arithmetic: results wrap modulo 2^Width
Wrap(x) == ((x + 2^(Width - 1)) % 2^Width) - 2^(Width - 1)

\* line 144: reject if nowSec-timestamp > maxAge || timestamp > nowSec
WindowOK(nowSec, timestamp) ==
    ~(Wrap(nowSec - timestamp) > MaxAge \/ timestamp > nowSec)

\* the window of the spec, on mathematical integers
Fresh(nowSec, timestamp) == 0 <= nowSec - timestamp /\ nowSec - timestamp <= MaxAge

VARIABLES nowSec, timestamp

vars == <<nowSec, timestamp>>

\* one call of ValidateSignature: any clock reading, any request timestamp
Init == nowSec \in Nows /\ timestamp \in Int64

\* the check keeps no state
Next == UNCHANGED vars

Spec == Init /\ [][Next]_vars

\* The timestamp test of ValidateSignature accepts exactly the messages
\* signed within the last MaxAge seconds (spec 8), for every int64 a
\* client may send.
WindowExact == WindowOK(nowSec, timestamp) = Fresh(nowSec, timestamp)

=============================================================================
