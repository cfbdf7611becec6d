--------------------------- MODULE MCConnections ---------------------------
(* The connection manager, the table pages, the saved connections and the exit
   of the application on small instances.  They share no state (closing a connection is an action of the
   manager and of the pages), so a behaviour moves one part and leaves the
   others in their initial state. *)
EXTENDS Connections, TablePages, TLC

CONSTANTS c1, c2, h1, h2
CONSTANTS Callers, Ids, Secrets, Redacted, MaxCommands
CONSTANTS Tasks

VARIABLES part
VARIABLES file, work, used, typed, kept, exported, commands, torn, doubtful
VARIABLES status, recorded, sent, window, events, asked, prompt, dialog, todo, promised,
          loop, faulty, app

\* Both go through tunnels; c2 is a test of a connection.
MCEngine == (c1 :> "MySql") @@ (c2 :> "Postgres")
MCVia == (c1 :> h1) @@ (c2 :> h2)
\* Columns a and b order the rows differently.
TableRows == {[a |-> 1, b |-> 13], [a |-> 2, b |-> 12], [a |-> 3, b |-> 11]}

\* Overlapping commands, and a longer sequence of commands one by one.
Saved == INSTANCE SavedConnections
Alone ==
    INSTANCE SavedConnections WITH Callers <- {CHOOSE c \in Callers : TRUE},
                                   MaxCommands <- MaxCommands + 1
Leaving == INSTANCE AppExit

savedVars == <<file, work, used, typed, kept, exported, commands, torn, doubtful>>
exitVars == <<status, recorded, sent, window, events, asked, prompt, dialog, todo, promised,
              loop, faulty, app>>
MCVars == <<vars, part, pagesVars, savedVars, exitVars>>

\* The second page has just been shown in ascending order.
SecondPage ==
    LET meta == [version |-> 0, key |-> "a", revision |-> <<0, FALSE>>]
        shown == [sort |-> "default", order |-> [key |-> "a", asc |-> TRUE], meta |-> meta]
    IN /\ cached = meta
       /\ cursors = <<Cursor(shown, [a |-> 2, b |-> 12], 3, "next"),
                      Cursor(shown, [a |-> 2, b |-> 12], 1, "previous")>>
       /\ issued = {cursors[1], cursors[2]}
       /\ loads = 1
       /\ version = 0 /\ acked = 0 /\ generation = 0 /\ disconnected = FALSE
       /\ load = [l \in Loaders |-> NoLoad]
       /\ ddl = NoDdl

MCInit == /\ part \in {"manager", "pages", "saved", "alone", "exit"}
          /\ Init
          /\ PagesInit \/ (part = "pages" /\ SecondPage)
          /\ IF part = "alone" THEN Alone!Init
             ELSE Saved!Init /\ (part # "saved" => file.kind = "absent")
          /\ Leaving!Init
MCNext ==
    \/ part = "manager" /\ Next /\ UNCHANGED <<part, pagesVars, savedVars, exitVars>>
    \/ part = "pages" /\ PagesNext /\ UNCHANGED <<part, vars, savedVars, exitVars>>
    \/ part = "saved" /\ Saved!Next /\ UNCHANGED <<part, vars, pagesVars, exitVars>>
    \/ part = "alone" /\ Alone!Next /\ UNCHANGED <<part, vars, pagesVars, exitVars>>
    \/ part = "exit" /\ Leaving!Next /\ UNCHANGED <<part, vars, pagesVars, savedVars>>
MCSpec == MCInit /\ [][MCNext]_MCVars /\ Fairness /\ Leaving!Fairness

\* SavedConnections and the known hosts: a trusted key leaves its file on request only,
\* and what the user saved is what the file of connections holds; only a command that
\* overlaps with another one, or a write that is interrupted, loses a connection or a
\* password of it.
FilesKept ==
    /\ PinsKept
    /\ [](IF part = "alone" THEN Alone!TypeOK /\ Alone!SavedKept ELSE Saved!TypeOK /\ Saved!SavedKept)
\* What is to end does, and not too early: a forced disconnect although a query
\* hangs, and the application after the tasks it was asked to cancel.
EndsReached ==
    /\ ForceEnds /\ Leaving!ConfirmedExits /\ Leaving!LeaveAllowed
    /\ [](Leaving!TypeOK /\ Leaving!LeavesSettled /\ Leaving!PromptTrue)
=============================================================================
