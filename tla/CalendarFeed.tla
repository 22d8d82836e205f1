---------------------------- MODULE CalendarFeed ----------------------------
(***************************************************************************)
(* The calendar a host subscribes to (core/calendar, app/calendar) and the *)
(* columns the booking transactions keep for it.  A visit enters the feed  *)
(* when it is first confirmed; each later change of its entry counts up    *)
(* its SEQUENCE, except that a host who renames one of its rooms changes   *)
(* what the entry says and nothing else.  Clients fetch at any time, their *)
(* copies arrive in any order, and they keep what carries the highest      *)
(* sequence.                                                               *)
(***************************************************************************)
EXTENDS Naturals

CONSTANTS
    Stay,           \* dates a visit can have
    GuestCount,     \* numbers of guests
    RoomLabels,     \* what the rooms of a visit can be called
    NoRooms,        \* the labels of a cancelled visit, which has no rooms
    MaxSequence     \* bound on the changes of the entry

ASSUME CalendarAssumption == MaxSequence \in Nat /\ NoRooms \notin RoomLabels

VARIABLES
    entry,      \* the visit's row and the labels of its rooms
    feed,       \* the feed's token is live
    copies      \* every version of the entry that a client was served

calendarVars == <<entry, feed, copies>>

EntryStatus == {"hold", "confirmed", "reconfirming", "cancelled"}
Event == [sequence : 0..MaxSequence, stay : Stay, status : {"confirmed", "cancelled"},
          guestCount : GuestCount, roomLabels : RoomLabels \cup {NoRooms}]

CalendarTypeOK ==
    /\ entry \in [status : EntryStatus, stay : Stay, eligible : BOOLEAN,
                  sequence : 0..MaxSequence, guestCount : GuestCount,
                  roomLabels : RoomLabels \cup {NoRooms}]
    /\ feed \in {"none", "live", "revoked"}
    /\ copies \subseteq Event

CalendarInit ==
    /\ \E s \in Stay, n \in GuestCount, l \in RoomLabels :
          entry = [status |-> "hold", stay |-> s, eligible |-> FALSE, sequence |-> 0,
                   guestCount |-> n, roomLabels |-> l]
    /\ feed = "none"
    /\ copies = {}

NextSequence == IF entry.eligible THEN entry.sequence + 1 ELSE entry.sequence
Counted == NextSequence <= MaxSequence

ConfirmEntry ==
    /\ entry.status = "hold" /\ Counted
    /\ entry' = [entry EXCEPT !.status = "confirmed", !.eligible = TRUE, !.sequence = NextSequence]
    /\ UNCHANGED <<feed, copies>>

\* Mutant: a visit that was moved keeps its sequence.
RescheduleQuietly(s, n, l) ==
    /\ entry.status # "cancelled" /\ Counted
    /\ entry' = [status |-> "confirmed", stay |-> s, eligible |-> TRUE,
                 sequence |-> entry.sequence, guestCount |-> n, roomLabels |-> l]
    /\ UNCHANGED <<feed, copies>>

RescheduleEntry(s, n, l) ==
    /\ entry.status # "cancelled" /\ Counted
    /\ entry' = [status |-> "confirmed", stay |-> s, eligible |-> TRUE,
                 sequence |-> NextSequence, guestCount |-> n, roomLabels |-> l]
    /\ UNCHANGED <<feed, copies>>

\* Reconfirmation changes the visit, not its entry.
ReconfirmEntry ==
    /\ entry.status \in {"confirmed", "reconfirming"}
    /\ entry' = [entry EXCEPT !.status = IF @ = "confirmed" THEN "reconfirming" ELSE "confirmed"]
    /\ UNCHANGED <<feed, copies>>

CancelEntry ==
    /\ entry.status # "cancelled" /\ Counted
    /\ entry' = [entry EXCEPT !.status = "cancelled", !.sequence = NextSequence,
                              !.roomLabels = NoRooms]
    /\ UNCHANGED <<feed, copies>>

\* updateRoomInventory gives a room of the visit another label.
RelabelRoom(l) ==
    /\ entry.status # "cancelled"
    /\ entry' = [entry EXCEPT !.roomLabels = l]
    /\ UNCHANGED <<feed, copies>>

IssueCalendarFeed ==
    /\ feed # "live" /\ feed' = "live"
    /\ UNCHANGED <<entry, copies>>

RevokeCalendarFeed ==
    /\ feed = "live" /\ feed' = "revoked"
    /\ UNCHANGED <<entry, copies>>

Listed == entry.eligible /\ entry.status # "hold"
Published == [sequence |-> entry.sequence, stay |-> entry.stay,
              status |-> IF entry.status = "cancelled" THEN "cancelled" ELSE "confirmed",
              guestCount |-> entry.guestCount, roomLabels |-> entry.roomLabels]

LoadCalendarFeed ==
    /\ feed = "live" /\ Listed
    /\ copies' = copies \cup {Published}
    /\ UNCHANGED <<entry, feed>>

CalendarNext ==
    \/ ConfirmEntry \/ ReconfirmEntry \/ CancelEntry
    \/ \E s \in Stay, n \in GuestCount, l \in RoomLabels : RescheduleEntry(s, n, l)
    \/ \E l \in RoomLabels : RelabelRoom(l)
    \/ IssueCalendarFeed \/ RevokeCalendarFeed \/ LoadCalendarFeed

CalendarSpec == CalendarInit /\ [][CalendarNext]_calendarVars

-----------------------------------------------------------------------------
\* Everything that a copy says, but the labels of its rooms.
SaysTheSame(a, b) ==
    a.stay = b.stay /\ a.status = b.status /\ a.guestCount = b.guestCount

\* Whatever order a client receives its copies in, the one with the highest sequence has
\* the latest dates, status and guests: copies that differ in them differ in their
\* sequence, and nothing served is ahead of the row (holds.ts:317-323, 384-386, 508-513).
\* It does not have the latest room labels, which change without a new sequence.
SequenceTellsTheLatest ==
    /\ \A a, b \in copies : a.sequence = b.sequence => SaysTheSame(a, b)
    /\ \A a \in copies : a.sequence <= entry.sequence
    /\ \A a \in copies : a.sequence = entry.sequence => SaysTheSame(a, Published)
=============================================================================
