------------------------------ MODULE Exchange ------------------------------
(***************************************************************************)
(* Commands against the server: the process opens its database             *)
(* (StoreOpen), serves requests, dies and is started again, while clients  *)
(* run their commands over connections that may be lost at any moment.     *)
(*                                                                         *)
(* The clients work on one project, flowsheet, block and wire, which are   *)
(* there or gone, and whose aspects are known by who chose them last.      *)
(***************************************************************************)
EXTENDS StoreOpen, Commands

CONSTANTS
    Clients,
    Script(_),  \* the commands a client may run
    Seeded      \* who chose the aspects of the first diagram

ASSUME ScriptAssumption == \A c \in Clients : Script(c) \subseteq AllCommands

VARIABLES
    sheet,      \* [there: which things, by: who chose each aspect last]
    client,     \* the command of each client, the step it is at, its exit code
    request,    \* [state, phase] of the request of each client
    seen,       \* the aspects a client was told
    done,       \* the commits made for a client
    contested   \* whether another one committed while a client was at it

exchangeVars == <<sheet, client, request, seen, done, contested>>
serverVars   == <<at, store, crashes, sheet, client, request, seen, done, contested>>

Serving == at = "serving"
Resting == [command |-> Query(BlockLibraryAPI), step |-> 0, exit |-> "none"]
NoRequest == [state |-> "none", phase |-> 0]

ServerInit ==
    /\ StoreInit
    /\ sheet = [there |-> {Things[i] : i \in DOMAIN Things}, by |-> [a \in Aspects |-> Seeded]]
    /\ client = [c \in Clients |-> Resting]
    /\ request = [c \in Clients |-> NoRequest]
    /\ seen = [c \in Clients |-> [a \in {"name", "values"} |-> "unseen"]]
    /\ done = [c \in Clients |-> 0]
    /\ contested = [c \in Clients |-> FALSE]

Running(c) == client[c].step > 0 /\ client[c].exit = "none"
Steps(c)   == client[c].command.script
Here(c)    == Steps(c)[client[c].step]
Asking(c)  == Running(c) /\ Here(c).kind = "ask"
State(c)   == request[c].state
Drop(c)    == request' = [request EXCEPT ![c] = NoRequest]

\* Of a command that has ended only what it was to change matters, unless the server is
\* still at its request.
Exits(c, code) ==
    client' = [client EXCEPT ![c] =
        IF State(c) = "working" THEN [@ EXCEPT !.exit = code]
        ELSE [command |-> Command(@.command.changes, << >>), step |-> 1, exit |-> code]]

Continues(c) ==
    IF client[c].step = Len(Steps(c)) THEN Exits(c, "0")
    ELSE client' = [client EXCEPT ![c].step = @ + 1]

(***************************************************************************)
(* A client (client.go, main.go: run)                                      *)
(***************************************************************************)
Run(c) ==
    /\ client[c].step = 0
    /\ store = FreshStore  \* bound: the database is a fresh one
    /\ at \in {"serving", "down"}
    /\ \E command \in Script(c) : client' = [client EXCEPT ![c].command = command, ![c].step = 1]
    /\ UNCHANGED <<storeVars, sheet, request, seen, done, contested>>

DecidesLocally(c) ==
    /\ Running(c) /\ Here(c).kind = "exit"
    /\ Exits(c, Here(c).code) \/ Continues(c)
    /\ UNCHANGED <<storeVars, sheet, request, seen, done, contested>>

\* The server gets the request, or the connection is refused.
RequestAt(c) ==
    /\ Asking(c) /\ State(c) = "none"
    /\ IF Serving
       THEN /\ request' = [request EXCEPT ![c] =
                  [state |-> IF Here(c).route.does = << >> THEN "ok" ELSE "working", phase |-> 1]]
            /\ UNCHANGED client
       ELSE Exits(c, "3") /\ UNCHANGED request
    /\ UNCHANGED <<storeVars, sheet, seen, done, contested>>

Receives(c) ==
    /\ Asking(c) /\ Drop(c)
    /\ \/ State(c) = "ok" /\ Continues(c)
       \/ State(c) = "refused" /\ \E code \in Here(c).refusal : Exits(c, code)
    /\ UNCHANGED <<storeVars, sheet, seen, done, contested>>

\* The body is cut off, too long or not what was expected: a failure like any other,
\* whatever the server did.
CannotRead(c) ==
    /\ Asking(c) /\ State(c) = "ok"
    /\ Drop(c)
    /\ Exits(c, "1")
    /\ UNCHANGED <<storeVars, sheet, seen, done, contested>>

\* Faulty variant: the deadline does not cover the wait for the server.
LosesPatience_Never(c) == FALSE /\ UNCHANGED serverVars

\* Faulty variant: a request whose connection was lost is sent again.
LosesPatience_Retries(c) ==
    /\ Asking(c) /\ State(c) # "none"
    /\ Exits(c, "3") \/ (State(c) # "working" /\ UNCHANGED client)
    /\ IF State(c) = "working" THEN UNCHANGED request ELSE Drop(c)
    /\ UNCHANGED <<storeVars, sheet, seen, done, contested>>

\* The deadline of the request has passed, or the connection is lost.  The server may
\* still be at it.
LosesPatience(c) ==
    /\ Asking(c) /\ State(c) # "none"
    /\ Exits(c, "3")
    /\ IF State(c) = "working" THEN UNCHANGED request ELSE Drop(c)
    /\ UNCHANGED <<storeVars, sheet, seen, done, contested>>

ClientStep(c) ==
    DecidesLocally(c) \/ RequestAt(c) \/ Receives(c) \/ CannotRead(c) \/ LosesPatience(c)

(***************************************************************************)
(* The server: the phases of the handlers, each a transaction or a         *)
(* calculation                                                             *)
(***************************************************************************)
Handler(c) == Here(c).route
At(c, phase) == Serving /\ State(c) = "working" /\ Handler(c).does[request[c].phase] = phase
There(thing) == thing \in sheet.there

\* An answer nobody waits for is dropped.
Answers(c, state) ==
    request' = [request EXCEPT ![c] =
        IF Running(c) THEN [state |-> state, phase |-> 0] ELSE NoRequest]

Proceeds(c) ==
    IF request[c].phase = Len(Handler(c).does) THEN Answers(c, "ok")
    ELSE request' = [request EXCEPT ![c].phase = @ + 1]

Checks(c) ==
    /\ At(c, "check")
    /\ Proceeds(c) \/ Answers(c, "refused")
    /\ UNCHANGED <<storeVars, sheet, client, seen, done, contested>>

Reads(c) ==
    /\ At(c, "read")
    /\ IF There(Handler(c).on)
       THEN /\ Proceeds(c)
            /\ seen' = [seen EXCEPT ![c] =
                  [a \in DOMAIN @ |-> IF a \in Handler(c).reads THEN sheet.by[a] ELSE @[a]]]
       ELSE Answers(c, "refused") /\ UNCHANGED seen
    /\ UNCHANGED <<storeVars, sheet, client, done, contested>>

ShowsResult(c) ==
    /\ At(c, "show")
    /\ IF There(Handler(c).shows) THEN Proceeds(c) ELSE Answers(c, "refused")
    /\ UNCHANGED <<storeVars, sheet, client, seen, done, contested>>

\* What a request says of an aspect: what its user wants, or what was read before.
Sent(c, a) == IF a \in client[c].command.changes THEN c ELSE seen[c][a]

Without(thing) ==
    IF thing = "nothing" THEN sheet.there
    ELSE {Things[i] : i \in {j \in DOMAIN Things : \A k \in 1..j : Things[k] # thing}}

Takes(c) ==
    /\ Proceeds(c)
    /\ \E thing \in Handler(c).drops :
         sheet' = [there |-> sheet.there \cap Without(thing),
                   by |-> [a \in Aspects |-> IF a \in Handler(c).writes THEN Sent(c, a)
                                             ELSE sheet.by[a]]]
    /\ done' = [done EXCEPT ![c] = @ + 1]
    /\ contested' = [d \in Clients |-> contested[d] \/ (d # c /\ client[d].step > 0)]
    /\ UNCHANGED <<storeVars, client, seen>>

Commits(c) == At(c, "commit") /\ There(Handler(c).on) /\ Takes(c)
Puts(c)    == At(c, "put") /\ Takes(c)

TurnsDown(c) ==
    /\ At(c, "commit") \/ At(c, "put")
    /\ Answers(c, "refused")
    /\ UNCHANGED <<storeVars, sheet, client, seen, done, contested>>

\* The context of a request whose client is gone is cancelled.
IsCancelled(c) ==
    /\ State(c) = "working" /\ ~Running(c)
    /\ Drop(c)
    /\ UNCHANGED <<storeVars, sheet, client, seen, done, contested>>

Handle(c) ==
    Checks(c) \/ Reads(c) \/ ShowsResult(c) \/ Commits(c) \/ Puts(c) \/ TurnsDown(c)
        \/ IsCancelled(c)

(***************************************************************************)
(* The process (main.go: serve)                                            *)
(***************************************************************************)
OpenDatabase == Open /\ UNCHANGED exchangeVars
StartServer  == Start /\ UNCHANGED exchangeVars

\* Killed, or told to stop: serve returns as soon as the listener is closed and does
\* not wait for the requests in flight.
Stop ==
    /\ Crash
    /\ request' = [c \in Clients |->
          IF State(c) # "working" THEN request[c]
          ELSE IF Running(c) THEN [state |-> "lost", phase |-> 0] ELSE NoRequest]
    /\ UNCHANGED <<sheet, client, seen, done, contested>>

Next ==
    \/ OpenDatabase \/ StartServer \/ Stop
    \/ \E c \in Clients : Run(c) \/ ClientStep(c) \/ Handle(c)

\* A command of the command line, and not a page in a browser: only it has a deadline.
IsCommand(c)   == client[c].command \in CommandTree
CommandStep(c) == IsCommand(c) /\ ClientStep(c)

\* Opening is one process working for itself.  A command's own steps and its deadline do
\* not depend on the server, and nothing is asked of the server, of its operator or of a
\* browser.
Spec ==
    /\ ServerInit /\ [][Next]_serverVars
    /\ WF_serverVars(OpenDatabase)
    /\ \A c \in Clients : WF_serverVars(CommandStep(c))

(***************************************************************************)
(* Properties                                                              *)
(***************************************************************************)
\* What has been decided: the command may end here by itself, or was refused.
TurnedDown(c) == Running(c) /\ (Here(c).kind = "exit" \/ State(c) = "refused")

\* What an exit code does tell a script of the change it asked for: 0 that it was made, and
\* 2 that it was not.  A change is never made twice, nor by a command that asks for none;
\* and a command that gives up by itself or is refused by the server has changed nothing,
\* unless somebody else was at it at the same time.  Codes 1 and 3 by themselves say nothing
\* of the change (CannotRead, LosesPatience), although docs/cli.md:36-38 reads as if they did.
ExitCodesAreTrue ==
    \A c \in Clients :
        LET wants == client[c].command.changes # {}
        IN  /\ done[c] <= IF wants THEN 1 ELSE 0
            /\ client[c].exit = "0" /\ wants => done[c] = 1
            /\ client[c].exit = "2" => done[c] = 0
            /\ TurnedDown(c) /\ ~contested[c] => done[c] = 0

\* Alone on a flowsheet a command changes what its user named and nothing else, whatever
\* else its requests carry.
LoneCommandsChangeOnlyWhatTheyName ==
    [][\A c \in Clients :
         done'[c] > done[c] /\ ~contested[c]
            => \A a \in Aspects \ client[c].command.changes : sheet'.by[a] = sheet.by[a]]_serverVars

\* Every command of the command line ends, whatever becomes of the server.
EveryCommandEnds == \A c \in Clients : Running(c) /\ IsCommand(c) ~> ~Running(c)
=============================================================================
