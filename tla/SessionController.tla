-------------------------- MODULE SessionController --------------------------
(***************************************************************************)
(* The import slot of the session controller (app/session_controller.cpp). *)
(*                                                                         *)
(* One profile import runs at a time, on the worker thread.  Requests that *)
(* arrive while it runs are coalesced into two flags and a pending reason, *)
(* and a live import that failed on a file it may re-read arms a backoff   *)
(* timer.  All of the controller's own code runs on the GUI thread, so     *)
(* every handler is one action; what the profile service answers to a      *)
(* finished import is an input of the handler.                             *)
(*                                                                         *)
(* The module is used twice: by itself, where the answers are arbitrary    *)
(* (Spec), and inside ProfileImport, which conjoins these actions with the *)
(* profile service, the importer and the source watcher.                   *)
(***************************************************************************)
EXTENDS Naturals

CONSTANT MaxRetries  \* the code's literal 3: automatic re-reads of one retry series

ASSUME MaxRetriesAssumption == MaxRetries \in Nat

VARIABLES
  inFlight,          \* m_build_in_flight
  active,            \* m_active_request: mode and reason of the last import begun
  rebuildRequested,  \* m_rebuild_requested
  refreshRequested,  \* m_refresh_requested
  pendingReason,     \* m_pending_reason
  retryArmed,        \* m_retry.isActive()
  retryAttempt,      \* m_retry_attempt
  selectionMoved,    \* m_selection_revision # m_started_selection_revision
  retryOwed,         \* history: the last live import left a file the backoff has to re-read
  unserved           \* history: strength of the strongest request no import has served yet

sessionVars == <<inFlight, active, rebuildRequested, refreshRequested, pendingReason,
                 retryArmed, retryAttempt, selectionMoved, retryOwed, unserved>>

Modes == {"Rebuild", "Refresh"}
Reasons == {"Startup", "Live", "Retry", "Manual", "SourceSettingsChanged"}
LiveReasons == {"Live", "Retry"}

\* The reasons for which an import leaves recorded, unchanged failures unread.
SkippingReasons == {"Startup", "Live", "SourceSettingsChanged"}
SkipsFailures(request) == request.mode = "Refresh" /\ request.reason \in SkippingReasons

\* How thorough an import is: it looks for new files, re-reads the recorded failures
\* too, or reads everything (ImportPromise).
StrengthOf(request) ==
  IF request.mode = "Rebuild" THEN 3 ELSE IF SkipsFailures(request) THEN 1 ELSE 2

TypeOK ==
  /\ inFlight \in BOOLEAN
  /\ active \in [mode : Modes, reason : Reasons]
  /\ rebuildRequested \in BOOLEAN
  /\ refreshRequested \in BOOLEAN
  /\ pendingReason \in Reasons
  /\ retryArmed \in BOOLEAN
  /\ retryAttempt \in 0 .. MaxRetries
  /\ selectionMoved \in BOOLEAN
  /\ retryOwed \in BOOLEAN
  /\ unserved \in 0 .. 3

Init ==
  /\ inFlight = FALSE
  /\ active = [mode |-> "Refresh", reason |-> "Manual"]
  /\ rebuildRequested = FALSE
  /\ refreshRequested = FALSE
  /\ pendingReason = "Live"
  /\ retryArmed = FALSE
  /\ retryAttempt = 0
  /\ selectionMoved = FALSE
  /\ retryOwed = FALSE
  /\ unserved = 0

-----------------------------------------------------------------------------
(* startImport: begin an import in a free slot, or note it for later.       *)

\* History.  A re-read stays owed until an import that reads recorded failures
\* begins, or one that some other reason asked for: only "Live" leaves it owed.
KeepOwed(owed) == retryOwed' = (owed /\ (inFlight' => active'.reason = "Live"))

\* History.  What callers asked for is served by an import that begins after it and is
\* as thorough; this looks at the calls and at what begins, not at what was noted.
Serve(due, begins) == unserved' = IF begins /\ StrengthOf(active') >= due THEN 0 ELSE due
Asked(request) ==
  LET k == StrengthOf(request) IN
  Serve(IF unserved < k THEN k ELSE unserved, ~inFlight /\ inFlight')

Begin(mode, reason) ==
  /\ inFlight' = TRUE
  /\ active' = [mode |-> mode, reason |-> reason]
  /\ selectionMoved' = FALSE

NoteRebuild ==
  /\ rebuildRequested' = TRUE
  /\ refreshRequested' = FALSE
  /\ UNCHANGED pendingReason

\* Mutant: a later request overrides an explicit one that is already waiting.
NoteRefresh_LastReasonWins(reason) ==
  /\ refreshRequested' = TRUE
  /\ pendingReason' = reason
  /\ UNCHANGED rebuildRequested

\* Mutant: a refresh asked for while an import runs is dropped.
NoteRefresh_Dropped(reason) == UNCHANGED <<rebuildRequested, refreshRequested, pendingReason>>

\* An explicit refresh already waiting keeps its reason, whatever asks next.
NoteRefresh(reason) ==
  /\ refreshRequested' = TRUE
  /\ pendingReason' = IF refreshRequested /\ pendingReason = "Manual"
                      THEN pendingReason ELSE reason
  /\ UNCHANGED rebuildRequested

\* "moved" says that the calling handler also moved the current-run selection.
StartImport(mode, reason, moved) ==
  \/ /\ ~inFlight
     /\ Begin(mode, reason)
     /\ UNCHANGED <<rebuildRequested, refreshRequested, pendingReason>>
  \/ /\ inFlight
     /\ IF mode = "Rebuild" THEN NoteRebuild ELSE NoteRefresh(reason)
     /\ selectionMoved' = (selectionMoved \/ moved)
     /\ UNCHANGED <<inFlight, active>>

-----------------------------------------------------------------------------
(* The handlers.                                                            *)

StopRetry == retryArmed' = FALSE

StartBuild ==
  /\ StopRetry
  /\ retryAttempt' = 0
  /\ StartImport("Rebuild", "Manual", FALSE)
  /\ KeepOwed(retryOwed)
  /\ Asked([mode |-> "Rebuild", reason |-> "Manual"])

\* Mutant: only an import in flight counts as a retry window, not an armed timer.
InRetryWindow_NotWhileArmed ==
  \/ inFlight /\ active.reason \in LiveReasons
  \/ refreshRequested /\ pendingReason = "Retry"

\* A re-read is armed, running, or waiting for the slot.
InRetryWindow ==
  \/ retryArmed
  \/ inFlight /\ active.reason \in LiveReasons
  \/ refreshRequested /\ pendingReason = "Retry"

RefreshProfile(reason, moved) ==
  LET promoted == reason = "Live" /\ InRetryWindow IN
  /\ StopRetry
  /\ retryAttempt' = IF promoted THEN retryAttempt ELSE 0
  /\ StartImport("Refresh", IF promoted THEN "Retry" ELSE reason, moved)
  /\ KeepOwed(retryOwed)
  /\ Asked([mode |-> "Refresh", reason |-> reason])

RetryTimeout ==
  /\ retryArmed
  /\ retryArmed' = FALSE
  /\ StartImport("Refresh", "Retry", FALSE)
  /\ KeepOwed(retryOwed)
  /\ Asked([mode |-> "Refresh", reason |-> "Retry"])
  /\ UNCHANGED retryAttempt

\* "accepted" and "retryable" are the profile service's answer: the result was
\* applied, and one of its issues may disappear when the file is read again.
MayRetry(accepted, retryable) ==
  /\ accepted
  /\ retryable
  /\ active.reason \in LiveReasons
  /\ retryAttempt < MaxRetries

PassOnRebuild ==
  /\ rebuildRequested
  /\ rebuildRequested' = FALSE
  /\ Begin("Rebuild", "Manual")
  /\ UNCHANGED <<refreshRequested, pendingReason, retryArmed, retryAttempt>>

PassOnRefresh ==
  /\ ~rebuildRequested
  /\ refreshRequested
  /\ refreshRequested' = FALSE
  /\ pendingReason' = "Live"
  /\ Begin("Refresh", pendingReason)
  /\ UNCHANGED <<rebuildRequested, retryArmed, retryAttempt>>

\* Mutant: attempts are not counted.
FreeSlot_NeverCounts(mayRetry) ==
  /\ ~rebuildRequested
  /\ ~refreshRequested
  /\ inFlight' = FALSE
  /\ retryArmed' = (retryArmed \/ mayRetry)
  /\ UNCHANGED <<active, rebuildRequested, refreshRequested, pendingReason, selectionMoved,
                 retryAttempt>>

FreeSlot(mayRetry) ==
  /\ ~rebuildRequested
  /\ ~refreshRequested
  /\ inFlight' = FALSE
  /\ retryArmed' = (retryArmed \/ mayRetry)
  /\ retryAttempt' = IF mayRetry THEN retryAttempt + 1 ELSE retryAttempt
  /\ UNCHANGED <<active, rebuildRequested, refreshRequested, pendingReason, selectionMoved>>

OnBuildFinished(accepted, retryable) ==
  /\ inFlight
  /\ PassOnRebuild \/ PassOnRefresh \/ FreeSlot(MayRetry(accepted, retryable))
  /\ KeepOwed(MayRetry(accepted, retryable))
  /\ Serve(unserved, inFlight')

\* Every selection counts, also of the run that is already selected.
SetCurrentRun ==
  /\ selectionMoved' = TRUE
  /\ UNCHANGED <<inFlight, active, rebuildRequested, refreshRequested, pendingReason,
                 retryArmed, retryAttempt, retryOwed, unserved>>

\* A new process: the state Init describes.
Restarted ==
  /\ inFlight' = FALSE
  /\ active' = [mode |-> "Refresh", reason |-> "Manual"]
  /\ rebuildRequested' = FALSE
  /\ refreshRequested' = FALSE
  /\ pendingReason' = "Live"
  /\ retryArmed' = FALSE
  /\ retryAttempt' = 0
  /\ selectionMoved' = FALSE
  /\ retryOwed' = FALSE
  /\ unserved' = 0

-----------------------------------------------------------------------------
(* The controller on its own: any caller, any answer.                       *)

\* A store was loaded: the latest run is selected, then the sources are caught up.
StoreLoaded == RefreshProfile("Startup", TRUE)

Next ==
  \/ StartBuild
  \/ StoreLoaded
  \/ \E reason \in {"Live", "Manual", "SourceSettingsChanged"} : RefreshProfile(reason, FALSE)
  \/ RetryTimeout
  \/ \E accepted, retryable \in BOOLEAN : OnBuildFinished(accepted, retryable)
  \/ SetCurrentRun

\* The worker always answers and the timer of an armed retry always fires.
Fairness ==
  /\ WF_sessionVars(\E accepted, retryable \in BOOLEAN : OnBuildFinished(accepted, retryable))
  /\ WF_sessionVars(RetryTimeout)

Spec == Init /\ [][Next]_sessionVars
FairSpec == Spec /\ Fairness

-----------------------------------------------------------------------------
(* Properties.                                                              *)

\* A free slot never strands a request: whatever was noted while an import ran
\* has been begun by the time the controller is idle (onBuildFinished).
NothingStranded == ~inFlight => ~rebuildRequested /\ ~refreshRequested

\* The backoff timer runs only while the slot is free, after at least one and
\* at most MaxRetries attempts: it can never interrupt an import it does not know.
RetryOnlyWhenIdle == retryArmed => ~inFlight /\ retryAttempt \in 1 .. MaxRetries

\* A file that a live import could not read yet is not skipped by the next
\* live arrival (the comment in refreshProfile): while a re-read is owed, no
\* import runs that leaves recorded failures unread for a live reason.
OwedRereadNotSkipped == retryOwed /\ inFlight => ~SkipsFailures(active)

\* An owed re-read is either armed or has been taken over; it is never forgotten.
OwedRereadIsArmed == retryOwed /\ ~inFlight => retryArmed

\* A live arrival that waits behind a live import or a retry waits as a re-read:
\* by the time it begins, that import may have recorded a failure it would skip.
ArrivalPromotedInWindow ==
  inFlight /\ active.reason \in LiveReasons /\ refreshRequested => pendingReason # "Live"

\* No request is forgotten: while one is unserved an import runs, at whose end it is due.
NothingForgotten == unserved # 0 => inFlight

\* The slot keeps the promise made to its callers (ImportPromise): each call is followed
\* by an import that begins after it and is at least as thorough, at once or when the
\* running one ends, however calls and answers interleave.  What a caller asked is
\* taken from the call; the flags that have to remember it are not looked at.
Promise == INSTANCE ImportPromise
             WITH running <- IF inFlight THEN StrengthOf(active) ELSE 0,
                  owed    <- unserved

PromiseKept == Promise!FairSpec
=============================================================================
