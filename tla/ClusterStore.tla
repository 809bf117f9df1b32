---------------------------- MODULE ClusterStore ----------------------------
(***************************************************************************)
(* What a compressed volume promises its callers, whatever the layout on   *)
(* disk: a store of clusters in which one operation at a time is carried   *)
(* out.  While it runs, and when it ends without success, only the cluster *)
(* it is about may read differently; an operation that reports success has *)
(* stored what was asked for; one that finds no space leaves the cluster   *)
(* empty, reading as zeros.                                                *)
(***************************************************************************)
CONSTANTS Clusters, Payloads, Zeros, Damaged, None

Readings == Payloads \union {Zeros, Damaged}

VARIABLES
  content,  \* what reading each cluster returns
  busy,     \* the cluster an operation is working on, or None
  want,     \* what that operation is to store (Zeros to delete)
  answer    \* how the last operation ended

vars == <<content, busy, want, answer>>

TypeOK == /\ content \in [Clusters -> Readings]
          /\ busy \in Clusters \union {None}
          /\ want \in Payloads \union {Zeros}
          /\ answer \in {"none", "ok", "nospace", "ioerror", "crashed"}

Init == /\ content = [c \in Clusters |-> Zeros]
        /\ busy = None /\ want = Zeros /\ answer = "none"

Begin(c, w) == /\ busy = None /\ answer # "crashed"
               /\ busy' = c /\ want' = w /\ answer' = "none"
               /\ UNCHANGED content

(* Half-way states of the cluster at work show, those of others never do. *)
Working == /\ busy # None
           /\ UNCHANGED <<busy, want, answer>>
           /\ content' \in {[content EXCEPT ![busy] = x] : x \in Readings}

End(outcomes, code) ==
  /\ busy # None
  /\ busy' = None /\ want' = Zeros /\ answer' = code
  /\ content' \in {[content EXCEPT ![busy] = x] : x \in outcomes}

Succeed == End({want}, "ok")
NoSpace == End({Zeros}, "nospace")
IoError == End(Readings, "ioerror")
CrashAtWork == End(Readings, "crashed")

CrashIdle == /\ busy = None /\ answer' = "crashed"
             /\ UNCHANGED <<content, busy, want>>

Restart == /\ answer = "crashed" /\ answer' = "none"
           /\ UNCHANGED <<content, busy, want>>

Next == \/ \E c \in Clusters, w \in Payloads \union {Zeros} : Begin(c, w)
        \/ Working \/ Succeed \/ NoSpace \/ IoError
        \/ CrashAtWork \/ CrashIdle \/ Restart

Spec == Init /\ [][Next]_vars
=============================================================================
