----------------------------- MODULE MCServices -----------------------------
(***************************************************************************)
(* The services around bookings and runs.  They share no state, so their   *)
(* interleavings with one another show nothing: the initial state picks    *)
(* the service that runs, and the others stay as they are.                 *)
(***************************************************************************)
EXTENDS GuestOutbox, HostPings, Schedules, HouseholdMemory, RunPage, GuestAccess,
        CalendarFeed, Accounts, RoomChoice, ReleaseProbes, Capture, TLC

CONSTANTS h1, h2, e1, e2, e3

VARIABLE scenario

Services == {"outbox", "pings", "schedules", "memory", "page", "access", "calendar",
             "accounts", "rooms", "probes", "capture"}

MCHost == {h1, h2}
MCEmail == {e1, e2, e3}
MCHostOf == (e1 :> h1) @@ (e2 :> h1) @@ (e3 :> h2)

\* The retry window that follows is posted in, and not worked on.
MCClaims == (0 :> 2) @@ (1 :> 0)

\* Emails the dispatchers authorize between them: a retry and one of another row.
MaxEmails == 3
ServicesBound == MapThenSumSet(LAMBDA r : outbox[r].attempts, Row) <= MaxEmails

DispatcherSymmetry == Permutations(Dispatcher)

\* The services that do not run start in one state each.
ServicesInit ==
    /\ scenario \in Services
    /\ Init /\ PingInit /\ ScheduleInit /\ MemoryInit /\ PageInit /\ AccessInit
    /\ CalendarInit /\ AccountInit /\ ProbeInit /\ CaptureInit
    /\ scenario # "pings" => address = CHOOSE a \in Address : TRUE
    /\ scenario # "memory" => parties = Party
    /\ scenario # "calendar" => /\ entry.stay = CHOOSE s \in Stay : TRUE
                                /\ entry.guestCount = CHOOSE n \in GuestCount : TRUE
                                /\ entry.roomLabels = CHOOSE l \in RoomLabels : TRUE
    /\ scenario # "probes" => target = "local"
    /\ IF scenario = "rooms"
       THEN ChoiceInit
       ELSE house = <<>> /\ people = 1 /\ offer = NoOffer /\ outcome = NoOutcome

OnlyOutbox == UNCHANGED <<pingVars, scheduleVars, memoryVars, pageVars, accessVars,
                          calendarVars, accountVars, choiceVars, probeVars, captureVars,
                          scenario>>
OnlyPings == UNCHANGED <<vars, scheduleVars, memoryVars, pageVars, accessVars, calendarVars,
                         accountVars, choiceVars, probeVars, captureVars, scenario>>
OnlySchedules == UNCHANGED <<vars, pingVars, memoryVars, pageVars, accessVars, calendarVars,
                             accountVars, choiceVars, probeVars, captureVars, scenario>>
OnlyMemory == UNCHANGED <<vars, pingVars, scheduleVars, pageVars, accessVars, calendarVars,
                          accountVars, choiceVars, probeVars, captureVars, scenario>>
OnlyPage == UNCHANGED <<vars, pingVars, scheduleVars, memoryVars, accessVars, calendarVars,
                        accountVars, choiceVars, probeVars, captureVars, scenario>>
OnlyAccess == UNCHANGED <<vars, pingVars, scheduleVars, memoryVars, pageVars, calendarVars,
                          accountVars, choiceVars, probeVars, captureVars, scenario>>
OnlyCalendar == UNCHANGED <<vars, pingVars, scheduleVars, memoryVars, pageVars, accessVars,
                            accountVars, choiceVars, probeVars, captureVars, scenario>>
OnlyAccounts == UNCHANGED <<vars, pingVars, scheduleVars, memoryVars, pageVars, accessVars,
                            calendarVars, choiceVars, probeVars, captureVars, scenario>>
OnlyRooms == UNCHANGED <<vars, pingVars, scheduleVars, memoryVars, pageVars, accessVars,
                         calendarVars, accountVars, probeVars, captureVars, scenario>>
OnlyProbes == UNCHANGED <<vars, pingVars, scheduleVars, memoryVars, pageVars, accessVars,
                          calendarVars, accountVars, choiceVars, captureVars, scenario>>
OnlyCapture == UNCHANGED <<vars, pingVars, scheduleVars, memoryVars, pageVars, accessVars,
                           calendarVars, accountVars, choiceVars, probeVars, scenario>>

ServicesNext ==
    \/ scenario = "outbox" /\ Next /\ OnlyOutbox
    \/ scenario = "pings" /\ PingNext /\ OnlyPings
    \/ scenario = "schedules" /\ ScheduleNext /\ OnlySchedules
    \/ scenario = "memory" /\ MemoryNext /\ OnlyMemory
    \/ scenario = "page" /\ PageNext /\ OnlyPage
    \/ scenario = "access" /\ AccessNext /\ OnlyAccess
    \/ scenario = "calendar" /\ CalendarNext /\ OnlyCalendar
    \/ scenario = "accounts" /\ AccountNext /\ OnlyAccounts
    \/ scenario = "rooms" /\ ChoiceNext /\ OnlyRooms
    \/ scenario = "probes" /\ ProbeNext /\ OnlyProbes
    \/ scenario = "capture" /\ CaptureNext /\ OnlyCapture

servicesVars == <<vars, pingVars, scheduleVars, memoryVars, pageVars, accessVars, calendarVars,
                  accountVars, choiceVars, probeVars, captureVars, scenario>>

ServicesSpec == ServicesInit /\ [][ServicesNext]_servicesVars

\* The service that runs keeps its variables in their types.
ServicesTypeOK ==
    CASE scenario = "outbox" -> TypeOK
      [] scenario = "pings" -> PingTypeOK
      [] scenario = "schedules" -> ScheduleTypeOK
      [] scenario = "memory" -> MemoryTypeOK
      [] scenario = "page" -> PageTypeOK
      [] scenario = "access" -> AccessTypeOK
      [] scenario = "calendar" -> CalendarTypeOK
      [] scenario = "accounts" -> AccountTypeOK
      [] scenario = "rooms" -> ChoiceTypeOK
      [] scenario = "probes" -> ProbeTypeOK
      [] scenario = "capture" -> CaptureTypeOK
=============================================================================
