------------------------------ MODULE AppExit ------------------------------
(***************************************************************************)
(* Leaving the application while data tasks run (lib.rs, lifecycle.rs):    *)
(* closing the window, quitting, the one confirmation dialog, cancel_all   *)
(* and the loop that waits for the tasks.  The main thread handles one     *)
(* event at a time; the dialog's callback, the loop, the workers and the   *)
(* commands of the window run beside it.  A task is its status in          *)
(* DataTaskRegistry, without the limit of one writer.                      *)
(***************************************************************************)
CONSTANTS
    Tasks       \* ids of data tasks

VARIABLES
    status,     \* [Tasks -> status], "none" before the task is registered
    recorded,   \* tasks whose final status the history file holds
    sent,       \* tasks with a preview or execute command under way
    window,     \* the main window exists
    events,     \* requests to exit that wait for the main thread
    asked,      \* the event in the handler, and what has_active said of it
    prompt,     \* exit_prompt_open
    dialog,     \* "none", "shown", "cancelling" or "waiting"
    todo,       \* what cancel_all has left to cancel
    promised,   \* the tasks it was asked to cancel
    loop,       \* where the waiting loop is
    faulty,     \* its last save failed
    app         \* "open", or the event that ended the application

taskVars == <<status, recorded, sent>>
mainVars == <<window, events, asked, app>>
dialogVars == <<prompt, dialog, todo, promised>>
loopVars == <<loop, faulty>>
vars == <<taskVars, mainVars, dialogVars, loopVars>>

\* "Reading" stands for the phases of a preview, "Executing" for those of a
\* write before its COMMIT, "Ended" for the terminal statuses.
ActiveStatuses == {"Created", "Reading", "Executing", "Committing", "Cancelling"}
Statuses == ActiveStatuses \cup {"none", "Ready", "Ended"}
Requests == {"quit", "exit", "lastWindow"}
NoEvent == [event |-> "none", active |-> FALSE]

TypeOK ==
    /\ status \in [Tasks -> Statuses]
    /\ recorded \in SUBSET Tasks /\ sent \in SUBSET Tasks
    /\ window \in BOOLEAN
    /\ events \in SUBSET Requests
    /\ asked \in [event : Requests \cup {"none", "close"}, active : BOOLEAN]
    /\ prompt \in BOOLEAN
    /\ dialog \in {"none", "shown", "cancelling", "waiting"}
    /\ todo \in SUBSET promised /\ promised \in SUBSET Tasks
    /\ loop \in {"off", "look", "maintain", "exit"}
    /\ faulty \in BOOLEAN
    /\ app \in Requests \cup {"open"}

Init ==
    /\ status = [t \in Tasks |-> "none"] /\ recorded = {} /\ sent = {}
    /\ window = TRUE /\ events = {} /\ asked = NoEvent /\ app = "open"
    /\ prompt = FALSE /\ dialog = "none" /\ todo = {} /\ promised = {}
    /\ loop = "off" /\ faulty = FALSE

-----------------------------------------------------------------------------
(* The tasks: commands of the window, workers, and the history file. *)

\* A preview that waits for the user's approval does not keep the application.
HasActive(s) == \E t \in Tasks : s[t] \in ActiveStatuses

Ended(s) == {t \in Tasks : s[t] = "Ended"}

Cancelled(s, t) ==
    [s EXCEPT ![t] = CASE @ \in {"none", "Ended", "Committing"} -> @
                       [] @ \in {"Ready", "Created"} -> "Ended"
                       [] OTHER -> "Cancelling"]

Send(t) ==
    /\ window /\ t \notin sent
    /\ status[t] \in {"none", "Ready"}
    /\ sent' = sent \cup {t}
    /\ UNCHANGED <<status, recorded, mainVars, dialogVars, loopVars>>

\* A command that was sent is carried out although its window has gone since.
Receive(t) ==
    /\ t \in sent
    /\ sent' = sent \ {t}
    /\ status' = [status EXCEPT ![t] = CASE @ = "none" -> "Created"
                                         [] @ = "Ready" -> "Executing"
                                         [] OTHER -> @]
    /\ UNCHANGED <<recorded, mainVars, dialogVars, loopVars>>

CancelCommand(t) ==
    /\ window
    /\ status' = Cancelled(status, t)
    /\ UNCHANGED <<recorded, sent, mainVars, dialogVars, loopVars>>

\* A worker goes on; Ready comes only to a preview that nobody cancelled.
Work(t) ==
    /\ \E step \in {<<"Created", "Reading">>, <<"Reading", "Ready">>,
                    <<"Executing", "Committing">>} :
          status[t] = step[1] /\ status' = [status EXCEPT ![t] = step[2]]
    /\ UNCHANGED <<recorded, sent, mainVars, dialogVars, loopVars>>

\* The final status is registered first and saved afterwards, by Persist.
End(t) ==
    /\ status[t] \in ActiveStatuses
    /\ status' = [status EXCEPT ![t] = "Ended"]
    /\ UNCHANGED <<recorded, sent, mainVars, dialogVars, loopVars>>

Expire(t) ==
    /\ status[t] = "Ready"
    /\ status' = [status EXCEPT ![t] = "Ended"]
    /\ UNCHANGED <<recorded, sent, mainVars, dialogVars, loopVars>>

\* A worker's publish, or the timer; it always saves the whole registry.
Persist ==
    /\ recorded' = recorded \cup Ended(status)
    /\ UNCHANGED <<status, sent, mainVars, dialogVars, loopVars>>

-----------------------------------------------------------------------------
(* The main thread: confirm_data_task_exit. *)

\* The window is asked to close, the user quits, or a request is due.
CheckActive(e) ==
    /\ asked = NoEvent
    /\ \/ e = "close" /\ window
       \/ e = "quit"
       \/ e \in events
    /\ asked' = [event |-> e, active |-> HasActive(status)]
    /\ events' = events \ {e}
    /\ UNCHANGED <<taskVars, window, app, dialogVars, loopVars>>

\* Closing the last window asks the application to exit.
Allow ==
    /\ asked # NoEvent /\ ~asked.active
    /\ asked' = NoEvent
    /\ IF asked.event = "close"
       THEN window' = FALSE /\ events' = events \cup {"lastWindow"} /\ UNCHANGED app
       ELSE app' = asked.event /\ UNCHANGED <<window, events>>
    /\ UNCHANGED <<taskVars, dialogVars, loopVars>>

\* request_exit swaps the flag in: the first refusal opens the dialog.
Refuse ==
    /\ asked.active
    /\ asked' = NoEvent
    /\ prompt' = TRUE
    /\ dialog' = IF prompt THEN dialog ELSE "shown"
    /\ UNCHANGED <<taskVars, window, events, app, todo, promised, loopVars>>

-----------------------------------------------------------------------------
(* The dialog and the loop that waits. *)

ContinueWaiting ==
    /\ dialog = "shown"
    /\ prompt' = FALSE /\ dialog' = "none"
    /\ UNCHANGED <<taskVars, mainVars, todo, promised, loopVars>>

ChooseCancel ==
    /\ dialog = "shown"
    /\ dialog' = "cancelling"
    /\ promised' = {t \in Tasks : status[t] \notin {"none", "Ended"}}
    /\ todo' = promised'
    /\ UNCHANGED <<taskVars, mainVars, prompt, loopVars>>

\* Each task is cancelled and the registry saved, if the disk lets it.
CancelNext(t) ==
    /\ dialog = "cancelling" /\ t \in todo
    /\ status' = Cancelled(status, t)
    /\ \/ recorded' = recorded \cup Ended(status')
       \/ UNCHANGED recorded
    /\ todo' = todo \ {t}
    /\ UNCHANGED <<sent, mainVars, prompt, dialog, promised, loopVars>>

StartLoop ==
    /\ dialog = "cancelling" /\ todo = {}
    /\ dialog' = "waiting"
    /\ loop' = "look"
    /\ UNCHANGED <<taskVars, mainVars, prompt, todo, promised, faulty>>

Look ==
    /\ loop = "look" /\ ~HasActive(status)
    /\ loop' = "maintain"
    /\ UNCHANGED <<taskVars, mainVars, dialogVars, faulty>>

Maintain ==
    /\ loop = "maintain"
    /\ \/ recorded' = recorded \cup Ended(status) /\ faulty' = FALSE
       \/ faulty' = TRUE /\ UNCHANGED recorded
    /\ loop' = "exit"
    /\ UNCHANGED <<status, sent, mainVars, dialogVars>>

\* Faulty: the loop ends with its first request.
ExitOnce ==
    /\ loop = "exit"
    /\ events' = events \cup {"exit"}
    /\ loop' = "off"
    /\ UNCHANGED <<taskVars, window, asked, app, dialogVars, faulty>>

\* The loop goes on: the request may be refused for a task started meanwhile.
CallExit ==
    /\ loop = "exit"
    /\ events' = events \cup {"exit"}
    /\ loop' = "look"
    /\ UNCHANGED <<taskVars, window, asked, app, dialogVars, faulty>>

TaskStep ==
    \/ \E t \in Tasks : Send(t) \/ Receive(t) \/ CancelCommand(t)
    \/ \E t \in Tasks : Work(t) \/ End(t) \/ Expire(t)
    \/ Persist

MainStep == (\E e \in Requests \cup {"close"} : CheckActive(e)) \/ Allow \/ Refuse

DialogStep ==
    \/ ContinueWaiting \/ ChooseCancel \/ StartLoop
    \/ \E t \in Tasks : CancelNext(t)

LoopStep == Look \/ Maintain \/ CallExit

Next == app = "open" /\ (TaskStep \/ MainStep \/ DialogStep \/ LoopStep)

\* The dialog's callback, the loop and the main thread run on.  A task that is
\* cancelled or commits ends, by the deadlines of DataTaskRuntime.  Nothing
\* makes a user answer the dialog, or a task that nobody cancelled end.
Fairness ==
    /\ WF_vars(app = "open" /\ (StartLoop \/ \E t \in Tasks : CancelNext(t)))
    /\ WF_vars(app = "open" /\ LoopStep)
    /\ WF_vars(app = "open" /\ (Allow \/ Refuse))
    /\ WF_vars(app = "open" /\ CheckActive("exit"))
    /\ \A t \in Tasks :
          WF_vars(app = "open" /\ status[t] \in {"Cancelling", "Committing"} /\ End(t))

Spec == Init /\ [][Next]_vars /\ Fairness

-----------------------------------------------------------------------------
(* Properties. *)

\* What the dialog says: no exit is allowed before the outcome of each task
\* that was cancelled is known.  (Read at the check: a quit that passed it may
\* still overtake a command or an answer to the dialog.)
LeaveAllowed ==
    [][asked'.event # "none" /\ ~asked'.active =>
          \A t \in promised \ todo : status[t] = "Ended"]_asked

\* When the waiting loop ends the application, every task that the user was
\* asked about has ended, and the history says how unless the disk refused.
LeavesSettled ==
    app = "exit" =>
        /\ \A t \in promised : status[t] = "Ended"
        /\ ~faulty => promised \subseteq recorded

\* The flag is up exactly while the dialog is shown or its answer is carried
\* out: no refused exit is silent without one, and no second dialog opens.
PromptTrue == prompt <=> dialog # "none"

\* Once the user has chosen to leave, the application ends, however many exits
\* are refused for tasks started meanwhile, unless one of those never ends.
ConfirmedExits ==
    \/ []<>(\E t \in Tasks \ promised : status[t] \in ActiveStatuses)
    \/ dialog = "cancelling" ~> app # "open"
=============================================================================
