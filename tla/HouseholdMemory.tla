-------------------------- MODULE HouseholdMemory --------------------------
(***************************************************************************)
(* What the memory service keeps about the parties of a home, and its      *)
(* erasure (core/memory): a host forgets one party, an operator sweeps the *)
(* parties that no longer exist.  Both list page by page, delete what they *)
(* listed in batches and events one by one, while agents go on writing.    *)
(*                                                                         *)
(* The service is modelled at its least helpful: it lists items in the     *)
(* order they were written, and the token of the next page is an offset    *)
(* into what is stored at the time of the call.  One set of events stands  *)
(* for all sessions of a party.                                            *)
(***************************************************************************)
EXTENDS Naturals, FiniteSets

CONSTANTS
    Party,
    Eraser,     \* calls of forgetPartyMemory and forgetOrphanedMemory
    PageSize,
    MaxItems    \* bound on the items ever written

ASSUME MemoryAssumption == PageSize \in Nat /\ MaxItems \in Nat

VARIABLES
    parties,    \* the parties in the database
    future,     \* parties yet to be created; ids are never used again
    records,    \* long-term records of each party
    events,     \* raw events of each party
    written,    \* items ever written, which numbers them in the order they are listed
    eraser,     \* where each erasure stands
    forgotten   \* erasures that wrote memory_forgotten, or returned

memoryVars == <<parties, future, records, events, written, eraser, forgotten>>

Item == 1..MaxItems
Kept(p) == records[p] \cup events[p]

Asleep == [at |-> "idle", kind |-> "forget", todo |-> {}, listed |-> {}, offset |-> 0,
           owed |-> {}, alone |-> TRUE]

MemoryTypeOK ==
    /\ parties \subseteq Party /\ future \subseteq Party \ parties
    /\ written \in 0..MaxItems
    /\ records \in [Party -> SUBSET (1..written)]
    /\ events \in [Party -> SUBSET (1..written)]
    /\ eraser \in [Eraser -> [at : {"idle", "parties", "records", "deleteRecords", "events",
                                    "deleteEvents", "done"},
                              kind : {"forget", "sweep"}, todo : SUBSET Party,
                              listed : SUBSET Item, offset : 0..MaxItems,
                              owed : SUBSET Item, alone : BOOLEAN]]
    /\ forgotten \subseteq Eraser

MemoryInit ==
    /\ parties \in SUBSET Party
    /\ future = Party \ parties
    /\ records = [p \in Party |-> {}]
    /\ events = [p \in Party |-> {}]
    /\ written = 0
    /\ eraser = [e \in Eraser |-> Asleep]
    /\ forgotten = {}

-----------------------------------------------------------------------------
(***************************************************************************)
(* Parties and agents                                                      *)
(***************************************************************************)

CreateParty(p) ==
    /\ p \in future
    /\ parties' = parties \cup {p} /\ future' = future \ {p}
    /\ UNCHANGED <<records, events, written, eraser, forgotten>>

\* Fixture homes and the parties of the demonstration are deleted, never a real one's.
DeleteParty(p) ==
    /\ p \in parties
    /\ parties' = parties \ {p}
    /\ UNCHANGED <<future, records, events, written, eraser, forgotten>>

\* recordCaptureMemory and the memory manager's writes for a party they read before.
WriteEvent(p) ==
    /\ p \notin future /\ written < MaxItems
    /\ written' = written + 1
    /\ events' = [events EXCEPT ![p] = @ \cup {written'}]
    /\ UNCHANGED <<parties, future, records, eraser, forgotten>>

\* The service extracts a record from what it has seen, whenever it likes.
ExtractRecord(p) ==
    /\ events[p] # {} /\ written < MaxItems
    /\ written' = written + 1
    /\ records' = [records EXCEPT ![p] = @ \cup {written'}]
    /\ UNCHANGED <<parties, future, events, eraser, forgotten>>

-----------------------------------------------------------------------------
(***************************************************************************)
(* An erasure                                                              *)
(***************************************************************************)

Busy(e) == eraser[e].at \notin {"idle", "done"}
Target(e) == CHOOSE p \in eraser[e].todo : TRUE

\* What an erasure of p must remove, and whether another one is at work on p.
Begins(e, state) ==
    LET others == {f \in Eraser \ {e} : Busy(f) /\ eraser[f].todo \cap state.todo # {}}
    IN  [f \in Eraser |-> IF f = e THEN [state EXCEPT !.alone = others = {}]
                          ELSE IF f \in others THEN [eraser[f] EXCEPT !.alone = FALSE]
                          ELSE eraser[f]]

OwedBy(targets) == UNION {Kept(p) : p \in targets}

ForgetPartyMemory(e, p) ==
    /\ eraser[e].at = "idle"
    /\ p \in parties
    /\ eraser' = Begins(e, [Asleep EXCEPT !.at = "records", !.todo = {p}, !.owed = Kept(p)])
    /\ UNCHANGED <<parties, future, records, events, written, forgotten>>

\* Mutant: the parties of the database are read before the actors are listed.
ListActorsLast(e) ==
    /\ eraser[e].at = "idle"
    /\ eraser' = Begins(e, [Asleep EXCEPT !.at = "parties", !.kind = "sweep",
                                          !.todo = Party \ parties])
    /\ UNCHANGED <<parties, future, records, events, written, forgotten>>

\* Every actor with a record, or with an event in some session.
ListActors(e) ==
    /\ eraser[e].at = "idle"
    /\ eraser' = Begins(e, [Asleep EXCEPT !.at = "parties", !.kind = "sweep",
                                          !.todo = {p \in Party : Kept(p) # {}}])
    /\ UNCHANGED <<parties, future, records, events, written, forgotten>>

\* A database without homes, or without the real household, is taken for a wrong one:
\* the sweep is refused, which is an ErasureFails.
Orphans(e) ==
    /\ eraser[e].at = "parties"
    /\ LET orphans == eraser[e].todo \ parties
       IN  eraser' = [eraser EXCEPT ![e] =
               IF orphans = {} THEN [Asleep EXCEPT !.at = "done"]
               ELSE [@ EXCEPT !.at = "records", !.todo = orphans, !.owed = OwedBy(orphans)]]
    /\ UNCHANGED <<parties, future, records, events, written, forgotten>>

Place(items, i) == Cardinality({j \in items : j <= i})
Page(items, offset) == {i \in items : Place(items, i) \in (offset + 1)..(offset + PageSize)}

\* listAllPages: the pages are read to the end, each at its own time.
ListPage(e, items, next) ==
    LET page == Page(items, eraser[e].offset)
        more == Cardinality(items) > eraser[e].offset + PageSize
    IN  eraser' = [eraser EXCEPT ![e].listed = @ \cup page,
                                 ![e].offset = IF more THEN @ + PageSize ELSE 0,
                                 ![e].at = IF more THEN @ ELSE next]

ListRecords(e) ==
    /\ eraser[e].at = "records"
    /\ ListPage(e, records[Target(e)], "deleteRecords")
    /\ UNCHANGED <<parties, future, records, events, written, forgotten>>

DeleteRecords(e) ==
    /\ eraser[e].at = "deleteRecords"
    /\ records' = [records EXCEPT ![Target(e)] = @ \ eraser[e].listed]
    /\ eraser' = [eraser EXCEPT ![e].listed = {}, ![e].at = "events"]
    /\ UNCHANGED <<parties, future, events, written, forgotten>>

\* Mutant: each page is deleted before the next one is read.
ListAndDeleteEvents(e) ==
    /\ eraser[e].at = "events"
    /\ ListPage(e, events[Target(e)], "deleteEvents")
    /\ events' = [events EXCEPT ![Target(e)] = @ \ Page(@, eraser[e].offset)]
    /\ UNCHANGED <<parties, future, records, written, forgotten>>

ListEvents(e) ==
    /\ eraser[e].at = "events"
    /\ ListPage(e, events[Target(e)], "deleteEvents")
    /\ UNCHANGED <<parties, future, records, events, written, forgotten>>

DeleteEvent(e, i) ==
    /\ eraser[e].at = "deleteEvents"
    /\ i \in eraser[e].listed
    /\ events' = [events EXCEPT ![Target(e)] = @ \ {i}]
    /\ eraser' = [eraser EXCEPT ![e].listed = @ \ {i}]
    /\ UNCHANGED <<parties, future, records, written, forgotten>>

\* The next orphan, or the audit row of a host's erasure.
FinishParty(e) ==
    /\ eraser[e].at = "deleteEvents" /\ eraser[e].listed = {}
    /\ LET left == eraser[e].todo \ {Target(e)}
       IN  IF left # {}
           THEN /\ eraser' = [eraser EXCEPT ![e].at = "records", ![e].todo = left]
                /\ UNCHANGED forgotten
           ELSE /\ eraser' = [eraser EXCEPT ![e].at = "done"]
                /\ forgotten' = forgotten \cup {e}
    /\ UNCHANGED <<parties, future, records, events, written>>

\* A call is refused (a record of the batch is gone, say) or the process dies.
ErasureFails(e) ==
    /\ Busy(e)
    /\ eraser' = [eraser EXCEPT ![e] = [Asleep EXCEPT !.at = "done"]]
    /\ UNCHANGED <<parties, future, records, events, written, forgotten>>

MemoryNext ==
    \/ \E p \in Party : CreateParty(p) \/ DeleteParty(p) \/ WriteEvent(p) \/ ExtractRecord(p)
    \/ \E e \in Eraser :
          \/ \E p \in Party : ForgetPartyMemory(e, p)
          \/ ListActors(e) \/ Orphans(e) \/ ListRecords(e) \/ DeleteRecords(e)
          \/ ListEvents(e) \/ \E i \in Item : DeleteEvent(e, i)
          \/ FinishParty(e) \/ ErasureFails(e)

MemorySpec == MemoryInit /\ [][MemoryNext]_memoryVars

-----------------------------------------------------------------------------
\* When an erasure that had the party to itself reports success, nothing is left that the
\* service held when it began, though writes and extractions moved the pages it read
\* (forget.ts:16-21, 54-60).  What is written meanwhile may stay.
ForgottenMemoryIsGone ==
    \A e \in forgotten : eraser[e].alone =>
        \A p \in Party : eraser[e].owed \cap Kept(p) = {}

\* The sweep never turns to a party that exists, not even one created while it runs
\* (orphans.ts:56-60).
SweepSparesTheLiving ==
    \A e \in Eraser :
        eraser[e].kind = "sweep" /\ eraser[e].at \notin {"idle", "parties", "done"} =>
            eraser[e].todo \cap parties = {}
=============================================================================
