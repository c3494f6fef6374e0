----------------------------- MODULE SyncDevice -----------------------------
(***************************************************************************)
(* The commands on the other end of the synchronization server's           *)
(* connections: mangahub sync connect, monitor, disconnect and status, and *)
(* the health check of the HTTP API.  A connection carries the server's    *)
(* answers and, from the moment it is accepted, broadcasts.                *)
(*                                                                         *)
(* A command reads lines through a bufio.Scanner, which takes whatever the *)
(* socket holds into a buffer of its own: whole lines, and possibly a part *)
(* of the next one.  sync connect makes three scanners in turn on its one  *)
(* connection; what a scanner holds when the next one is made is lost.     *)
(* What becomes of progress at the server is the subject of TCPSync.       *)
(***************************************************************************)
EXTENDS Naturals, Sequences

CONSTANTS
    Terminals,  \* terminals in one directory, each running one command
    Commands,   \* Commands[t]: those that t may run
    MaxTold,    \* bound: broadcasts that reach t, for each terminal
    Nothing

ASSUME CommandAssumption ==
    Commands \in [Terminals -> SUBSET {"connect", "monitor", "disconnect", "check"}]
ASSUME BroadcastAssumption == MaxTold \in [Terminals -> Nat]
ASSUME NothingAssumption ==
    Nothing \notin Terminals \cup {"connect", "monitor", "disconnect", "check",
                                  "refused", "healthy", "doubtful", "timeout"}

VARIABLES
    command,  \* command[t]: what t runs, or Nothing
    stage,    \* stage[t]: where the command is
    link,     \* link[t]: "none", "open", "down" (lost) or "closed" by t
    asked,    \* asked[t]: requests the server has not read
    stream,   \* stream[t]: lines the server has sent that no scanner has taken
    half,     \* half[t]: the scanner has a part of the first line of stream[t]
    ahead,    \* ahead[t]: whole lines in the scanner's buffer
    verdict,  \* verdict[t]: what the command has told its user
    counted,  \* counted[t]: messagesRecv
    shown,    \* shown[t]: the broadcasts a monitor has printed
    file,     \* .sync_session: Nothing, "torn", or the terminal it names
    \* history
    told,     \* told[t]: broadcasts sent to t
    sent,     \* sent[t]: lines sent to t
    lost,     \* lost[t]: lines lost with a scanner
    early,    \* terminals that were told something before their hello_ack
    granted   \* terminals that were sent a hello_ack

traffic == <<link, asked, stream, told, sent, early, granted>>
scan == <<stream, half, ahead>>
user == <<verdict, counted, shown>>
deviceVars ==
    <<command, stage, link, asked, stream, half, ahead, verdict, counted, shown, file, told,
      sent, lost, early, granted>>

Line(kind, n) == [kind |-> kind, n |-> n]

DeviceInit ==
    /\ command = [t \in Terminals |-> Nothing]
    /\ stage = [t \in Terminals |-> "off"]
    /\ link = [t \in Terminals |-> "none"]
    /\ asked = [t \in Terminals |-> <<>>]
    /\ stream = [t \in Terminals |-> <<>>] /\ ahead = [t \in Terminals |-> <<>>]
    /\ half = [t \in Terminals |-> FALSE]
    /\ verdict = [t \in Terminals |-> Nothing]
    /\ counted = [t \in Terminals |-> 0]
    /\ shown = [t \in Terminals |-> <<>>]
    /\ file = Nothing
    /\ told = [t \in Terminals |-> 0] /\ sent = [t \in Terminals |-> 0]
    /\ lost = [t \in Terminals |-> 0]
    /\ early = {} /\ granted = {}

-----------------------------------------------------------------------------
(* The server, and the network.                                            *)

Write(t, line) ==
    /\ stream' = [stream EXCEPT ![t] = Append(@, line)]
    /\ sent' = [sent EXCEPT ![t] = @ + 1]

\* Mutant: the server does not know pings.
AnswerTo_NoPong(message) ==
    CASE message = "hello" -> "hello_ack"
      [] message = "health" -> "health_ok"
      [] message = "disconnect" -> "ack"
      [] OTHER -> "error"

\* The handler of the connection answers one message after the other; a hello
\* without a user is an error.
AnswerTo(message) ==
    CASE message = "hello" -> "hello_ack"
      [] message = "hello of nobody" -> "error"
      [] message = "ping" -> "pong"
      [] message = "health" -> "health_ok"
      [] message = "disconnect" -> "ack"

Answer(t) ==
    /\ link[t] = "open" /\ asked[t] # <<>>
    /\ Write(t, Line(AnswerTo(Head(asked[t])), 0))
    /\ asked' = [asked EXCEPT ![t] = Tail(@)]
    /\ granted' = IF Head(asked[t]) = "hello" THEN granted \cup {t} ELSE granted
    /\ UNCHANGED <<command, stage, link, half, ahead, user, file, told, lost, early>>

\* A broadcast reaches every connection, from its accept on.
Broadcast(t) ==
    /\ link[t] = "open" /\ told[t] < MaxTold[t]
    /\ Write(t, Line("progress_broadcast", told[t] + 1))
    /\ told' = [told EXCEPT ![t] = @ + 1]
    /\ early' = IF t \in granted THEN early ELSE early \cup {t}
    /\ UNCHANGED <<command, stage, link, asked, half, ahead, user, file, lost, granted>>

\* The server dies or the connection breaks.  Lines under way may arrive
\* still; if not, the scanner makes a line of the part it has.
Lose(t) ==
    /\ link[t] = "open"
    /\ link' = [link EXCEPT ![t] = "down"]
    /\ asked' = [asked EXCEPT ![t] = <<>>]
    /\ \/ UNCHANGED scan
       \/ /\ stream' = [stream EXCEPT ![t] = <<>>]
          /\ half' = [half EXCEPT ![t] = FALSE]
          /\ ahead' = [ahead EXCEPT ![t] =
                        IF half[t] THEN Append(@, Line("torn", 0)) ELSE @]
    /\ UNCHANGED <<command, stage, user, file, told, sent, lost, early, granted>>

-----------------------------------------------------------------------------
(* Scanners.                                                               *)

Reading(t) == stage[t] \in {"hello", "ping", "counting", "printing", "checking"}

\* A read takes k lines and possibly a part of the next; there is one only
\* when the buffer holds no whole line.
Fill(t) ==
    /\ Reading(t) /\ ahead[t] = <<>>
    /\ \E k \in 0 .. Len(stream[t]), cut \in BOOLEAN :
        /\ k > 0 \/ (cut /\ ~half[t])
        /\ cut => k < Len(stream[t])
        /\ ahead' = [ahead EXCEPT ![t] = SubSeq(stream[t], 1, k)]
        /\ stream' = [stream EXCEPT ![t] = SubSeq(@, k + 1, Len(@))]
        /\ half' = [half EXCEPT ![t] = cut]
    /\ UNCHANGED <<command, stage, link, asked, user, file, told, sent, lost, early,
                   granted>>

NextLine(t) == Head(ahead[t])
Take(t) ==
    /\ ahead[t] # <<>>
    /\ ahead' = [ahead EXCEPT ![t] = Tail(@)]
    /\ UNCHANGED <<stream, half>>

\* The first line is taken and the scanner abandoned: what else it holds is
\* lost, and the next one finds the rest of a line that was cut.
TakeAndAbandon(t) ==
    /\ ahead[t] # <<>>
    /\ lost' = [lost EXCEPT ![t] = @ + Len(ahead[t]) - 1]
    /\ ahead' = [ahead EXCEPT ![t] = <<>>]
    /\ stream' = [stream EXCEPT ![t] =
                 IF half[t] THEN <<Line("torn", 0)>> \o Tail(@) ELSE @]
    /\ half' = [half EXCEPT ![t] = FALSE]

\* Scan returns false.
AtEOF(t) == link[t] = "down" /\ stream[t] = <<>> /\ ahead[t] = <<>>

\* The command returns, and what it has not read is gone.
EndCommand(t, what) ==
    /\ stage' = [stage EXCEPT ![t] = "ended"]
    /\ verdict' = [verdict EXCEPT ![t] = what]
    /\ link' = [link EXCEPT ![t] = IF @ = "open" THEN "closed" ELSE @]
    /\ asked' = [asked EXCEPT ![t] = <<>>]
    /\ stream' = [stream EXCEPT ![t] = <<>>]
    /\ ahead' = [ahead EXCEPT ![t] = <<>>]
    /\ half' = [half EXCEPT ![t] = FALSE]
    /\ UNCHANGED <<command, counted, shown, file, told, sent, lost, early, granted>>

-----------------------------------------------------------------------------
(* Commands.                                                               *)

Dial(t, what, messages, next) ==
    /\ command[t] = Nothing /\ what \in Commands[t]
    /\ command' = [command EXCEPT ![t] = what]
    /\ link' = [link EXCEPT ![t] = "open"]
    /\ asked' = [asked EXCEPT ![t] = messages]
    /\ stage' = [stage EXCEPT ![t] = next]
    /\ UNCHANGED <<scan, user, file, told, sent, lost, early, granted>>

\* Nobody is logged in, the user is not found, or the dial fails.
DialFails(t, what) ==
    /\ command[t] = Nothing /\ what \in Commands[t]
    /\ command' = [command EXCEPT ![t] = what]
    /\ stage' = [stage EXCEPT ![t] = "ended"]
    /\ verdict' = [verdict EXCEPT ![t] = "refused"]
    /\ UNCHANGED <<traffic, half, ahead, counted, shown, file, lost>>

\* The user named with --user-id may be blank.
Connect(t) ==
    \E hello \in {"hello", "hello of nobody"} : Dial(t, "connect", <<hello>>, "hello")
Monitor(t) == Dial(t, "monitor", <<"hello">>, "hello")
Disconnect(t) == Dial(t, "disconnect", <<"hello", "disconnect">>, "closing")
CheckTCP(t) == Dial(t, "check", <<"health">>, "checking")

Waiting(t, what, where) == command[t] = what /\ stage[t] = where

\* Any line but a hello_ack, and the end of the connection, end the handshake.
Refused(t) ==
    /\ Waiting(t, "connect", "hello")
    /\ AtEOF(t) \/ (ahead[t] # <<>> /\ NextLine(t).kind # "hello_ack")
    /\ EndCommand(t, "refused")

\* Mutant: the handshake takes any line.
Accepted_AnyLine(t) ==
    /\ Waiting(t, "connect", "hello") /\ ahead[t] # <<>>
    /\ TakeAndAbandon(t)
    /\ file' = "torn" /\ stage' = [stage EXCEPT ![t] = "saving"]
    /\ UNCHANGED <<command, link, asked, user, told, sent, early, granted>>

\* os.WriteFile empties the file before it writes it; when it cannot open the
\* file the command goes on.
Accepted(t) ==
    /\ Waiting(t, "connect", "hello") /\ ahead[t] # <<>>
    /\ NextLine(t).kind = "hello_ack"
    /\ TakeAndAbandon(t)
    /\ \/ file' = "torn" /\ stage' = [stage EXCEPT ![t] = "saving"]
       \/ file' = file /\ stage' = [stage EXCEPT ![t] = "unsaved"]
    /\ UNCHANGED <<command, link, asked, user, told, sent, early, granted>>

\* Mutant: the ping is never written.
Ping_Unsent(t) ==
    /\ stage[t] \in {"saving", "unsaved"}
    /\ file' = IF stage[t] = "saving" THEN t ELSE file
    /\ counted' = [counted EXCEPT ![t] = @ + 1]
    /\ stage' = [stage EXCEPT ![t] = "ping"]
    /\ UNCHANGED <<command, link, asked, scan, verdict, shown, told, sent, lost, early,
                   granted>>

\* The file is written, then syncPing writes; the write may fail when the
\* connection is lost.
Ping(t) ==
    /\ stage[t] \in {"saving", "unsaved"}
    /\ file' = IF stage[t] = "saving" THEN t ELSE file
    /\ counted' = [counted EXCEPT ![t] = @ + 1]
    /\ \/ /\ stage' = [stage EXCEPT ![t] = "ping"]
          /\ asked' = [asked EXCEPT ![t] = IF link[t] = "open" THEN Append(@, "ping") ELSE @]
          /\ UNCHANGED verdict
       \/ /\ link[t] = "down"
          /\ stage' = [stage EXCEPT ![t] = "counting"]
          /\ verdict' = [verdict EXCEPT ![t] = "doubtful"]
          /\ UNCHANGED asked
    /\ UNCHANGED <<command, link, scan, shown, told, sent, lost, early, granted>>

\* Mutant: only a pong is counted.
Pong_OthersUncounted(t) ==
    /\ stage[t] = "ping"
    /\ TakeAndAbandon(t)
    /\ LET pong == NextLine(t).kind = "pong" IN
        /\ counted' = [counted EXCEPT ![t] = IF pong THEN @ + 1 ELSE @]
        /\ verdict' = [verdict EXCEPT ![t] = IF pong THEN "healthy" ELSE "doubtful"]
    /\ stage' = [stage EXCEPT ![t] = "counting"]
    /\ UNCHANGED <<command, link, asked, shown, file, told, sent, early, granted>>

\* The first line is the answer to the ping, whatever it is.
Pong(t) ==
    /\ stage[t] = "ping"
    /\ TakeAndAbandon(t)
    /\ counted' = [counted EXCEPT ![t] = @ + 1]
    /\ verdict' = [verdict EXCEPT ![t] =
                    IF NextLine(t).kind = "pong" THEN "healthy" ELSE "doubtful"]
    /\ stage' = [stage EXCEPT ![t] = "counting"]
    /\ UNCHANGED <<command, link, asked, shown, file, told, sent, early, granted>>

NoPong(t) ==
    /\ stage[t] = "ping" /\ AtEOF(t)
    /\ verdict' = [verdict EXCEPT ![t] = "doubtful"]
    /\ stage' = [stage EXCEPT ![t] = "counting"]
    /\ UNCHANGED <<command, traffic, half, ahead, counted, shown, file, lost>>

\* The third scanner counts lines until the connection is lost.
Count(t) ==
    /\ stage[t] = "counting" /\ Take(t)
    /\ counted' = [counted EXCEPT ![t] = @ + 1]
    /\ UNCHANGED <<command, stage, link, asked, verdict, shown, file, told, sent, lost,
                   early, granted>>

\* The goroutine ends, and select {} keeps the command.
GoesDeaf(t) ==
    /\ stage[t] = "counting" /\ AtEOF(t)
    /\ stage' = [stage EXCEPT ![t] = "deaf"]
    /\ UNCHANGED <<command, traffic, half, ahead, user, file, lost>>

\* Mutant: the monitor, too, makes a second scanner.
MonitorStarts_Abandons(t) ==
    /\ Waiting(t, "monitor", "hello") /\ TakeAndAbandon(t)
    /\ stage' = [stage EXCEPT ![t] = "printing"]
    /\ UNCHANGED <<command, link, asked, user, file, told, sent, early, granted>>

\* A monitor takes its first line, whatever it is, for the hello_ack.
MonitorStarts(t) ==
    /\ Waiting(t, "monitor", "hello") /\ Take(t)
    /\ stage' = [stage EXCEPT ![t] = "printing"]
    /\ UNCHANGED <<command, link, asked, user, file, told, sent, lost, early, granted>>

PrintUpdate(t) ==
    /\ stage[t] = "printing" /\ Take(t)
    /\ shown' = [shown EXCEPT ![t] = IF NextLine(t).kind = "progress_broadcast"
                                       THEN Append(@, NextLine(t).n) ELSE @]
    /\ UNCHANGED <<command, stage, link, asked, verdict, counted, file, told, sent, lost,
                   early, granted>>

\* A monitor whose connection is lost, and a disconnect that has written its
\* two messages, end; the latter never reads.
Leaves(t) ==
    /\ \/ command[t] = "monitor" /\ AtEOF(t) /\ stage[t] # "ended"
       \/ stage[t] = "closing"
    /\ EndCommand(t, verdict[t])

Checked(t) ==
    /\ stage[t] = "checking"
    /\ \/ AtEOF(t) /\ EndCommand(t, "refused")
       \/ /\ ahead[t] # <<>>
          /\ EndCommand(t, IF NextLine(t).kind = "health_ok" THEN "healthy" ELSE "refused")
       \/ ahead[t] = <<>> /\ EndCommand(t, "timeout")

\* Ctrl-C.
Interrupt(t) ==
    /\ command[t] \in {"connect", "monitor"} /\ stage[t] # "ended"
    /\ EndCommand(t, verdict[t])

\* sync status dials, sends nothing, and shows what the file says; its counters
\* are those of its own process.
Status(reachable) == IF reachable THEN file ELSE "inactive"

-----------------------------------------------------------------------------
Step(t) ==
    \/ Fill(t) \/ Refused(t) \/ Accepted(t) \/ Ping(t) \/ Pong(t) \/ NoPong(t)
    \/ Count(t) \/ GoesDeaf(t) \/ MonitorStarts(t) \/ PrintUpdate(t) \/ Leaves(t)
    \/ Checked(t)

DeviceNext ==
    \E t \in Terminals :
        \/ Connect(t) \/ Monitor(t) \/ Disconnect(t) \/ CheckTCP(t)
        \/ \E what \in {"connect", "monitor", "disconnect", "check"} : DialFails(t, what)
        \/ Answer(t) \/ Broadcast(t) \/ Lose(t) \/ Step(t) \/ Interrupt(t)

\* The server's handler and the command's goroutines run.
DeviceFairness == \A t \in Terminals : WF_deviceVars(Answer(t)) /\ WF_deviceVars(Step(t))

DeviceSpec == DeviceInit /\ [][DeviceNext]_deviceVars /\ DeviceFairness

-----------------------------------------------------------------------------
(* Properties.                                                             *)

\* Types, and the count of lines: as long as sync connect has its connection,
\* every line it was sent has been counted, is on its way, or was lost in the
\* buffer of an abandoned scanner.
DeviceTypeOK ==
    /\ command \in [Terminals -> {Nothing, "connect", "monitor", "disconnect", "check"}]
    /\ stage \in [Terminals -> {"off", "hello", "saving", "unsaved", "ping", "counting",
                                "deaf", "printing", "checking", "closing", "ended"}]
    /\ link \in [Terminals -> {"none", "open", "down", "closed"}]
    /\ verdict \in [Terminals -> {Nothing, "refused", "healthy", "doubtful", "timeout"}]
    /\ \A t \in Terminals :
        /\ half[t] => stream[t] # <<>>
        /\ stage[t] \in {"ping", "counting"} /\ link[t] = "open" =>
            counted[t] + lost[t] + Len(ahead[t]) + Len(stream[t]) = sent[t]

\* A handshake, a ping or a health check fails only for a cause: the connection
\* was never made or was lost, the hello named nobody, or a broadcast came
\* between; for the handshake it must have come before the hello_ack.
RefusalsHaveCause ==
    \A t \in Terminals :
        /\ verdict[t] = "refused" =>
            \/ link[t] \in {"none", "down"} \/ t \in early
            \/ command[t] = "connect" /\ t \notin granted
        /\ verdict[t] = "doubtful" => link[t] = "down" \/ told[t] > 0

\* The session that sync status shows, if it shows one, was granted by the
\* server: no other line was taken for the hello_ack.
ShownSessionIsGranted ==
    \A reachable \in BOOLEAN :
        Status(reachable) \in granted \cup {Nothing, "torn", "inactive"}

Lines(t) == ahead[t] \o stream[t]
Updates(t) == {i \in DOMAIN Lines(t) : Lines(t)[i].kind = "progress_broadcast"}

\* A monitor prints every broadcast in order; only the first of all can be
\* missing, when it came before the hello_ack.
MonitorShowsAll ==
    \A t \in Terminals :
        stage[t] = "printing" /\ link[t] = "open" =>
            /\ \A i, k \in DOMAIN shown[t] : i < k => shown[t][i] < shown[t][k]
            /\ \A i, k \in Updates(t) : i < k => Lines(t)[i].n < Lines(t)[k].n
            /\ \A i \in DOMAIN shown[t], k \in Updates(t) : shown[t][i] < Lines(t)[k].n
            /\ \A n \in 1 .. told[t] :
                \/ \E i \in DOMAIN shown[t] : shown[t][i] = n
                \/ \E k \in Updates(t) : Lines(t)[k].n = n
                \/ n = 1 /\ t \in early

\* A command that waits for the server comes to a verdict: whatever scanners
\* have lost, the answer it waits for is not among it.
CommandsSettle ==
    \A t \in Terminals :
        stage[t] \in {"hello", "saving", "unsaved", "ping", "checking"}
            ~> stage[t] \in {"counting", "printing", "deaf", "ended"}
=============================================================================
