---------------------------- MODULE HostDecisions ----------------------------
(***************************************************************************)
(* What a host may rely on, without runs being queued, executions, leases  *)
(* or catch blocks: a question is put once and answered once; its answer   *)
(* is given to one carrier at a time, who brings the very answer; it       *)
(* takes effect once and is not given to anybody afterwards.  Withdrawing  *)
(* an invitation closes at once its questions that had no effect yet, and  *)
(* nothing is asked about it any more.                                     *)
(***************************************************************************)
CONSTANTS
    Decision, Invitation, Answer,
    Concerns,   \* [Decision -> SUBSET Invitation]
    Carrier,    \* those who bring an answer where it takes effect
    Brings,     \* [Carrier -> Decision]
    Says,       \* [Carrier -> Answer]
    Nobody

VARIABLES
    question,   \* "absent", "pending", the host's answer, or "cancelled"
    carrier,    \* [Decision -> Carrier \cup {Nobody}]
    effective,  \* the decisions whose answer took effect
    closed      \* the invitations that were withdrawn

Init ==
    /\ question = [d \in Decision |-> "absent"]
    /\ carrier = [d \in Decision |-> Nobody]
    /\ effective = {}
    /\ closed = {}

Put(D) ==
    /\ \A d \in D : question[d] = "absent" /\ Concerns[d] \cap closed = {}
    /\ question' = [d \in Decision |-> IF d \in D THEN "pending" ELSE question[d]]
    /\ UNCHANGED <<carrier, effective, closed>>

Reply(d, v) ==
    /\ question[d] = "pending"
    /\ question' = [question EXCEPT ![d] = v]
    /\ UNCHANGED <<carrier, effective, closed>>

\* Whoever carries an answer may learn too late that the question was closed.
Give(c) ==
    LET d == Brings[c]
    IN  /\ carrier[d] = Nobody /\ d \notin effective
        /\ question[d] \in {Says[c], "cancelled"}
        /\ carrier' = [carrier EXCEPT ![d] = c]
        /\ UNCHANGED <<question, effective, closed>>

TakeEffect(c) ==
    LET d == Brings[c]
    IN  /\ carrier[d] = c /\ d \notin effective
        /\ question[d] = Says[c]
        /\ effective' = effective \cup {d}
        /\ UNCHANGED <<question, carrier, closed>>

\* The carriers of some answers are lost.
TakeBack(D) ==
    /\ D \cap effective = {}
    /\ carrier' = [d \in Decision |-> IF d \in D THEN Nobody ELSE carrier[d]]
    /\ UNCHANGED <<question, effective, closed>>

OpenQuestions(i) ==
    {d \in Decision \ effective : i \in Concerns[d] /\ question[d] # "absent"}

Close(i) ==
    /\ i \notin closed
    /\ closed' = closed \cup {i}
    /\ question' = [d \in Decision |-> IF d \in OpenQuestions(i) THEN "cancelled"
                                       ELSE question[d]]
    /\ UNCHANGED <<carrier, effective>>

Next ==
    \/ \E D \in SUBSET Decision : Put(D) \/ TakeBack(D)
    \/ \E d \in Decision, v \in Answer : Reply(d, v)
    \/ \E c \in Carrier : Give(c) \/ TakeEffect(c)
    \/ \E i \in Invitation : Close(i)

Spec == Init /\ [][Next]_<<question, carrier, effective, closed>>
=============================================================================
