------------------------------- MODULE Capture -------------------------------
(***************************************************************************)
(* From a host's message to the guest's link.  A form posts the message    *)
(* (capture-invitation-form.tsx, captureInvitationAction); the queue files *)
(* it under an intent key that changes every ten minutes (run-task.ts); an *)
(* execution of the run calls capture_invitation, which looks for the      *)
(* run's audit row, mints an invitation and writes that row, in three      *)
(* transactions; and a form that sees the run completed has the link of    *)
(* the captured invitation minted anew (revealCapturedInvitationAction).   *)
(*                                                                         *)
(* One host, one message.  The queue's own limits are RunQueue's: here a   *)
(* run whose lease lapses is queued again or has failed.  An execution     *)
(* that loses its claim may well go on.                                    *)
(***************************************************************************)
EXTENDS Naturals

CONSTANTS
    Form,           \* the host's open pages
    LastWindow,     \* bound on the retry windows, from 0
    MaxClaims,      \* bound on the executions of the run of each window
    MaxCaptured     \* bound on the invitations of a run

Window == 0..LastWindow
Claim(w) == 1..MaxClaims[w]

ASSUME CaptureAssumption ==
    LastWindow \in Nat /\ MaxClaims \in [Window -> Nat] /\ MaxCaptured \in Nat

VARIABLES
    window,         \* the retry window of now
    form,           \* each page: whether it posts, what its panel shows, and of which run
    capture,        \* the run of each window: its status and how often it was claimed
    execution,      \* what each execution is at, and the invitation it just minted
    minted,         \* invitations each run has minted
    audited,        \* the invitation of the run's latest audit row, 0 for none
    loose           \* calls of the tool that were cut off, or made without the claim

captureVars == <<window, form, capture, execution, minted, audited, loose>>

Panel == {"none", "queued", "failed", "revealing", "shown", "stale", "unrevealed"}

CaptureTypeOK ==
    /\ window \in Window
    /\ form \in [Form -> [posting : BOOLEAN, panel : Panel, run : Window]]
    /\ capture \in [Window -> [status : {"absent", "queued", "running", "completed", "failed"},
                               claims : Nat]]
    /\ \A w \in Window :
           execution[w] \in
               [Claim(w) -> [at : {"none", "thinking", "checked", "minted", "ended"},
                             invitation : 0..MaxCaptured]]
    /\ minted \in [Window -> 0..MaxCaptured]
    /\ audited \in [Window -> 0..MaxCaptured]
    /\ loose \in [Window -> 0..MaxCaptured]

Unmounted == [posting |-> FALSE, panel |-> "none", run |-> 0]

\* An execution between two calls of the tool, or done.
Is(at) == [at |-> at, invitation |-> 0]

CaptureInit ==
    /\ window = 0
    /\ form = [f \in Form |-> Unmounted]
    /\ capture = [w \in Window |-> [status |-> "absent", claims |-> 0]]
    /\ execution = [w \in Window |-> [n \in Claim(w) |-> Is("none")]]
    /\ minted = [w \in Window |-> 0]
    /\ audited = [w \in Window |-> 0]
    /\ loose = [w \in Window |-> 0]

\* Another loose call, up to the bound.
OneMore(w) == loose' = [loose EXCEPT ![w] = IF @ < MaxCaptured THEN @ + 1 ELSE @]

WindowPasses ==
    /\ window < LastWindow
    /\ window' = window + 1
    /\ UNCHANGED <<form, capture, execution, minted, audited, loose>>

-----------------------------------------------------------------------------
(***************************************************************************)
(* The form                                                                *)
(***************************************************************************)

\* captureSubmitDisabled: not while a request is under way, or its run as far as is seen.
Submit(f) ==
    /\ ~form[f].posting /\ form[f].panel # "queued"
    /\ form' = [form EXCEPT ![f].posting = TRUE]
    /\ UNCHANGED <<window, capture, execution, minted, audited, loose>>

\* A panel is mounted once per run: for the run it shows already it stays as it is.
Mounted(page) ==
    IF page.panel # "none" /\ page.run = window THEN [page EXCEPT !.posting = FALSE]
    ELSE [posting |-> FALSE, panel |-> "queued", run |-> window]

\* The run of this intent: a new row, its failed row queued again, or its row as it is.
Accepted ==
    [capture EXCEPT ![window].status = IF @ \in {"absent", "failed"} THEN "queued" ELSE @]

\* captureInvitationAction; the page learns of the run, or the answer is lost.
PostMessage(f) ==
    /\ form[f].posting
    /\ capture' = Accepted
    /\ \E page \in {Mounted(form[f]), Unmounted} : form' = [form EXCEPT ![f] = page]
    /\ UNCHANGED <<window, execution, minted, audited, loose>>

\* The request is refused, or never arrives.
PostFails(f) ==
    /\ form[f].posting
    /\ form' = [form EXCEPT ![f] = Unmounted]
    /\ UNCHANGED <<window, capture, execution, minted, audited, loose>>

\* The poller sees the run settled, and stops.  A completed one is revealed at once.
SeeSettled(f) ==
    LET status == capture[form[f].run].status
    IN  /\ form[f].panel = "queued" /\ status \in {"completed", "failed"}
        /\ form' = [form EXCEPT ![f].panel = IF status = "failed" THEN status
                                                 ELSE "revealing"]
        /\ UNCHANGED <<window, capture, execution, minted, audited, loose>>

\* revealCapturedInvitationAction: the new link replaces the one another page shows.
\* The page learns of it, or the answer is lost.
Reveal(f) ==
    LET w == form[f].run
    IN  /\ form[f].panel = "revealing" /\ audited[w] # 0
        /\ \E panel \in {"shown", "unrevealed"} :
               form' = [g \in Form |->
                   IF g = f THEN [form[g] EXCEPT !.panel = panel]
                   ELSE IF form[g].panel = "shown" /\ form[g].run = w
                        THEN [form[g] EXCEPT !.panel = "stale"] ELSE form[g]]
        /\ UNCHANGED <<window, capture, execution, minted, audited, loose>>

\* Nothing was captured, or an error.
RevealFails(f) ==
    /\ form[f].panel = "revealing"
    /\ form' = [form EXCEPT ![f].panel = "unrevealed"]
    /\ UNCHANGED <<window, capture, execution, minted, audited, loose>>

RevealAgain(f) ==
    /\ form[f].panel = "unrevealed"
    /\ form' = [form EXCEPT ![f].panel = "revealing"]
    /\ UNCHANGED <<window, capture, execution, minted, audited, loose>>

-----------------------------------------------------------------------------
(***************************************************************************)
(* The run                                                                 *)
(***************************************************************************)

HasClaim(w, n) == capture[w].status = "running" /\ capture[w].claims = n

ClaimCapture(w) ==
    /\ capture[w].status = "queued" /\ capture[w].claims < MaxClaims[w]
    /\ capture' = [capture EXCEPT ![w] = [status |-> "running", claims |-> @.claims + 1]]
    /\ execution' = [execution EXCEPT ![w][capture[w].claims + 1].at = "thinking"]
    /\ UNCHANGED <<window, form, minted, audited, loose>>

\* The lease lapses; whoever held it may be in the middle of a call.
ClaimLapses(w) ==
    /\ capture[w].status = "running"
    /\ \E status \in {"queued", "failed"} : capture' = [capture EXCEPT ![w].status = status]
    /\ IF execution[w][capture[w].claims].at \in {"checked", "minted"} THEN OneMore(w)
       ELSE loose' = loose
    /\ UNCHANGED <<window, form, execution, minted, audited>>

\* Only the execution with the claim concludes the run; another has gone on in vain.
ConcludeCapture(w, n) ==
    /\ execution[w][n].at = "thinking"
    /\ execution' = [execution EXCEPT ![w][n] = Is("ended")]
    /\ \E status \in {"completed", "failed"} :
           capture' = [capture EXCEPT ![w].status = IF HasClaim(w, n) THEN status ELSE @]
    /\ UNCHANGED <<window, form, minted, audited, loose>>

\* The process dies; its claim lapses later.
ExecutionDies(w, n) ==
    /\ execution[w][n].at \in {"thinking", "checked", "minted"}
    /\ execution' = [execution EXCEPT ![w][n] = Is("ended")]
    /\ IF HasClaim(w, n) /\ execution[w][n].at = "minted" THEN OneMore(w) ELSE loose' = loose
    /\ UNCHANGED <<window, form, capture, minted, audited>>

-----------------------------------------------------------------------------
(***************************************************************************)
(* capture_invitation, as often as the model calls it                      *)
(***************************************************************************)

\* Mutant: no call looks for an earlier one.
CheckNothing(w, n) ==
    /\ execution[w][n].at = "thinking"
    /\ execution' = [execution EXCEPT ![w][n].at = "checked"]
    /\ IF HasClaim(w, n) THEN loose' = loose ELSE OneMore(w)
    /\ UNCHANGED <<window, form, capture, minted, audited>>

\* A call after the run's capture was audited returns that one and goes no further: it
\* audits the same invitation once more, so that audited[w] stays what it is.
CheckCaptured(w, n) ==
    /\ execution[w][n].at = "thinking" /\ audited[w] = 0
    /\ execution' = [execution EXCEPT ![w][n].at = "checked"]
    /\ IF HasClaim(w, n) THEN loose' = loose ELSE OneMore(w)
    /\ UNCHANGED <<window, form, capture, minted, audited>>

MintInvitation(w, n) ==
    /\ execution[w][n].at = "checked" /\ minted[w] < MaxCaptured
    /\ minted' = [minted EXCEPT ![w] = @ + 1]
    /\ execution' = [execution EXCEPT ![w][n] = [at |-> "minted", invitation |-> minted[w] + 1]]
    /\ UNCHANGED <<window, form, capture, audited, loose>>

AuditCapture(w, n) ==
    /\ execution[w][n].at = "minted"
    /\ audited' = [audited EXCEPT ![w] = execution[w][n].invitation]
    /\ execution' = [execution EXCEPT ![w][n] = Is("thinking")]
    /\ UNCHANGED <<window, form, capture, minted, loose>>

\* A query of the tool fails, or its answer is lost; the model may call again.
CallFailsHalfway(w, n) ==
    /\ execution[w][n].at \in {"checked", "minted"}
    /\ execution' = [execution EXCEPT ![w][n] = Is("thinking")]
    /\ IF HasClaim(w, n) /\ execution[w][n].at = "minted" THEN OneMore(w) ELSE loose' = loose
    /\ UNCHANGED <<window, form, capture, minted, audited>>

CaptureNext ==
    \/ WindowPasses
    \/ \E f \in Form : \/ Submit(f) \/ PostMessage(f) \/ PostFails(f) \/ SeeSettled(f)
                       \/ Reveal(f) \/ RevealFails(f) \/ RevealAgain(f)
    \/ \E w \in Window :
           \/ ClaimCapture(w) \/ ClaimLapses(w)
           \/ \E n \in Claim(w) :
                  \/ ConcludeCapture(w, n) \/ ExecutionDies(w, n)
                  \/ CheckCaptured(w, n) \/ MintInvitation(w, n)
                  \/ AuditCapture(w, n) \/ CallFailsHalfway(w, n)

CaptureSpec == CaptureInit /\ [][CaptureNext]_captureVars

\* "The run's first capture is authoritative": however often the pages post the message
\* within ten minutes, the model calls the tool and the run is executed again, a second
\* invitation costs a call cut off before its audit row, or one made without the claim.
CapturedOnce == \A w \in Window : minted[w] <= 1 + loose[w]
=============================================================================
