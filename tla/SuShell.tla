------------------------------ MODULE SuShell ------------------------------
(***************************************************************************)
(* What follows the decision to grant root: the su applet                  *)
(* (native/src/core/su/su.cpp, su_client_main), the thread of magiskd that *)
(* serves it (su/daemon.rs) and the child it forks, which becomes the      *)
(* shell (exec_root_shell).  The three talk over one socket; a message is  *)
(* <<"int", n>> or <<"fd", stream>>, and recv_fd takes whatever comes next.*)
(***************************************************************************)
EXTENDS Integers, Sequences

CONSTANTS OptionLists,   \* the command lines: sequences of <<option, argument>>
          Terminals,     \* for each stream: what the applet has there
          Modes,         \* the namespace modes the settings may hold
          Codes          \* exit codes of the shell

ASSUME ShellAssumption ==
  /\ OptionLists \subseteq Seq(STRING \X Int) /\ Modes \subseteq {"Global", "Requester", "Isolate"}
  /\ Codes \subseteq Int /\ Codes # {}

VARIABLES opts, optind, request, stdio, mode, client, up, down, server, child, pty

suVars == <<opts, optind, request, stdio, mode, client, up, down, server, child, pty>>
settled == <<opts, optind, request, stdio, mode>>

Std == <<"in", "out", "err">>
StdNames == {"in", "out", "err"}
NoFd == "-1"
Self == 1                \* the pid of the applet

----------------------------------------------------------------------------
(* su_client_main: the options.  A target of -1 stands for none.           *)

NoRequest == [command |-> FALSE, interactive |-> FALSE, target |-> -1,
              gids |-> <<>>, bad |-> FALSE]

\* Mutant: -t replaces an earlier -M.
ParseLast(r, o) ==
  CASE o[1] = "M" -> [r EXCEPT !.target = 0]
    [] o[1] = "t" -> [r EXCEPT !.target = o[2], !.bad = o[2] < 0]
    [] o[1] \in {"g", "G"} -> [r EXCEPT !.gids = Append(@, o[2])]
    [] o[1] = "c" -> [r EXCEPT !.command = TRUE]
    [] OTHER -> [r EXCEPT !.interactive = TRUE]

\* One option.  -M and -t exclude each other, a negative number is refused, and
\* -h and -v exit at once.  -l, -m, -p, -s and -Z are about the environment.
Parse(r, o) ==
  CASE o[1] = "M" -> [r EXCEPT !.target = 0, !.bad = r.target # -1]
    [] o[1] = "t" -> [r EXCEPT !.target = o[2], !.bad = r.target # -1 \/ o[2] < 0]
    [] o[1] \in {"g", "G"} -> [r EXCEPT !.gids = Append(@, o[2]), !.bad = o[2] < 0]
    [] o[1] = "c" -> [r EXCEPT !.command = TRUE]
    [] o[1] = "i" -> [r EXCEPT !.interactive = TRUE]
    [] o[1] \in {"l", "m", "p", "s", "Z"} -> r
    [] OTHER -> [r EXCEPT !.bad = TRUE]

\* A stream is handed over as a terminal if it is one and may be.
Atty(s) == stdio[s] = "tty" /\ (request.interactive \/ ~request.command)
NeedsPty == \E s \in StdNames : Atty(s)

----------------------------------------------------------------------------
\* read_int and recv_fd return: there is something to read, or nobody to send.
Readable == down # <<>> \/ server = "closed"

ClientGoes(pc, result) == client' = [client EXCEPT !.pc = pc, !.result = result]

\* One turn of the loop over the options; -c takes the rest of the line.
GetOpt ==
  /\ client.pc = "start" /\ optind <= Len(opts)
  /\ LET o == opts[optind] IN
     /\ request' = Parse(request, o)
     /\ optind' = IF o[1] = "c" THEN Len(opts) + 1 ELSE optind + 1
  /\ IF request'.bad THEN ClientGoes("done", "usage") ELSE UNCHANGED client
  /\ UNCHANGED <<opts, stdio, mode, up, down, server, child, pty>>

\* The connection and the request.
SuStart ==
  /\ client.pc = "start" /\ optind > Len(opts)
  /\ ClientGoes("ack", "") /\ server' = "decide"
  /\ UNCHANGED <<settled, up, down, child, pty>>

\* su_daemon_handler: refuses, fails to fork and hangs up, or forks the
\* child, which acknowledges.
Serve ==
  /\ server = "decide"
  /\ \/ down' = <<<<"int", 1>>>> /\ server' = "closed" /\ child' = child
     \/ down' = <<>> /\ server' = "closed" /\ child' = child
     \/ down' = <<<<"int", 0>>>> /\ server' = "wait" /\ child' = [child EXCEPT !.pc = "fds"]
  /\ UNCHANGED <<settled, client, up, pty>>

\* Mutant: a terminal is not announced, so the next stream takes its place.
SendTtyless(s) == IF Atty(s) \/ stdio[s] = "closed" THEN <<>> ELSE <<<<"fd", s>>>>
\* send_fd: nothing is sent when the descriptor is not open.
SendFd(s) == IF Atty(s) THEN <<<<"int", 0>>>>
             ELSE IF stdio[s] = "closed" THEN <<>> ELSE <<<<"fd", s>>>>

\* The acknowledgement, the three streams and whether a pty is needed.
ReadAck ==
  /\ client.pc = "ack"
  /\ Readable
  /\ IF down = <<>> \/ down[1][2] # 0
     THEN ClientGoes("done", "EACCES") /\ UNCHANGED <<up, down>>
     ELSE /\ up' = SendFd("in") \o SendFd("out") \o SendFd("err")
                   \o <<<<"int", IF NeedsPty THEN 1 ELSE 0>>>>
          /\ ClientGoes(IF NeedsPty THEN "ptmx" ELSE "code", "")
          /\ down' = Tail(down)
  /\ UNCHANGED <<settled, server, child, pty>>

\* recv_fd of the terminal: a number in its place is taken for none.  Then
\* the terminal is pumped until the shell closes it; without one, only a
\* signal ends the pump.
RecvPtmx ==
  /\ client.pc = "ptmx"
  /\ Readable
  /\ down' = IF down = <<>> THEN down ELSE Tail(down)
  /\ ClientGoes(IF down # <<>> /\ down[1][1] = "fd" THEN "pump" ELSE "deaf", "")
  /\ UNCHANGED <<settled, up, server, child, pty>>

\* The terminal hangs up once whoever had opened its other end is gone.
PumpEnds ==
  /\ client.pc = "pump" /\ pty /\ child.pc = "gone"
  /\ ClientGoes("code", "")
  /\ UNCHANGED <<settled, up, down, server, child, pty>>

\* sighandler: the standard streams are closed and poll is interrupted, which
\* ends the pump.
Interrupted ==
  /\ client.pc \in {"pump", "deaf"}
  /\ ClientGoes("code", "")
  /\ UNCHANGED <<settled, up, down, server, child, pty>>

ReadCode ==
  /\ client.pc = "code"
  /\ Readable
  /\ ClientGoes("done", IF down = <<>> THEN "none" ELSE <<"code", down[1][2]>>)
  /\ UNCHANGED <<settled, up, down, server, child, pty>>

----------------------------------------------------------------------------
(* The child: exec_root_shell.                                             *)

RecvFd ==
  /\ child.pc = "fds" /\ up # <<>>
  /\ LET fds == Append(child.fds, IF up[1][1] = "fd" THEN up[1][2] ELSE NoFd) IN
     child' = [child EXCEPT !.fds = fds, !.pc = IF Len(fds) = 3 THEN "pty" ELSE @]
  /\ up' = Tail(up)
  /\ UNCHANGED <<settled, client, down, server, pty>>

\* A pty if one is asked for; the child dies if either end of it cannot be
\* opened (exit_on_error), the second after the first has been sent.
OpenPty ==
  /\ child.pc = "pty" /\ up # <<>>
  /\ up' = Tail(up)
  /\ IF up[1] = <<"int", 0>> THEN child' = [child EXCEPT !.pc = "exec"] /\ UNCHANGED <<down, pty>>
     ELSE \/ /\ down' = Append(down, <<"fd", "ptmx">>) /\ pty' = TRUE
             /\ child' = [child EXCEPT !.pc = "exec", !.fds =
                            [i \in 1..3 |-> IF @[i] = NoFd THEN "pts" ELSE @[i]]]
          \/ /\ down' \in {down, Append(down, <<"fd", "ptmx">>)} /\ pty' = pty
             /\ child' = [child EXCEPT !.pc = "gone", !.code = 1]
  /\ UNCHANGED <<settled, client, server>>

\* The mount namespace: <<whose, private>>, 0 being the daemon's own.
Namespace ==
  LET pid == IF request.target = -1 THEN Self ELSE request.target
      m == IF request.target = 0 THEN "Global"
           ELSE IF request.target # -1 /\ mode = "Global" THEN "Requester" ELSE mode
  IN  CASE m = "Global" -> <<0, FALSE>>
        [] m = "Requester" -> <<pid, FALSE>>
        [] m = "Isolate" -> <<pid, TRUE>>

\* set_identity, for the target uid 0.
Gid == IF request.gids = <<>> THEN 0 ELSE request.gids[1]

\* The streams are swapped in, which ends the child if one is missing, the
\* socket is closed, the shell runs.
ExecShell ==
  /\ child.pc = "exec"
  /\ child' = IF \E i \in 1..3 : child.fds[i] = NoFd THEN [child EXCEPT !.pc = "gone", !.code = 1]
              ELSE [child EXCEPT !.pc = "shell", !.ns = Namespace, !.gid = Gid]
  /\ UNCHANGED <<settled, client, up, down, server, pty>>

ShellExits ==
  /\ child.pc = "shell"
  /\ \E c \in Codes : child' = [child EXCEPT !.pc = "gone", !.code = c]
  /\ UNCHANGED <<settled, client, up, down, server, pty>>

\* The daemon's thread has waited for the child.
WaitChild ==
  /\ server = "wait" /\ child.pc = "gone"
  /\ down' = Append(down, <<"int", child.code>>) /\ server' = "closed"
  /\ UNCHANGED <<settled, client, up, child, pty>>

SuInit ==
  /\ opts \in OptionLists /\ optind = 1 /\ request = NoRequest /\ mode \in Modes
  /\ stdio \in [StdNames -> Terminals]
  /\ client = [pc |-> "start", result |-> ""] /\ server = "none"
  /\ up = <<>> /\ down = <<>> /\ pty = FALSE
  /\ child = [pc |-> "none", fds |-> <<>>, ns |-> <<0, FALSE>>, gid |-> 0, code |-> 0]

\* What happens by itself, without a signal to the applet.
Unprompted ==
  \/ GetOpt \/ SuStart \/ Serve \/ ReadAck \/ RecvPtmx \/ PumpEnds \/ ReadCode
  \/ RecvFd \/ OpenPty \/ ExecShell \/ ShellExits \/ WaitChild

SuNext == Unprompted \/ Interrupted

SuSpec == SuInit /\ [][SuNext]_suVars

----------------------------------------------------------------------------
AllOpen == \A s \in StdNames : stdio[s] # "closed"

\* Option i is one: no -c took it for part of the command.
Given(i) == \A j \in 1..i - 1 : opts[j][1] # "c"

(* The shell runs with the streams, in the namespace and with the group    *)
(* the su that asked for it wants: every stream is the applet's own, or    *)
(* the new terminal exactly where the applet's is one; -M gives the global *)
(* namespace and -t that of the process, whatever the settings say, and    *)
(* the first -g or -G the group.                                           *)
ShellAsAsked ==
  child.pc = "shell" /\ AllOpen =>
    /\ \A i \in 1..3 : child.fds[i] = IF Atty(Std[i]) THEN "pts" ELSE Std[i]
    /\ \A i \in 1..Len(opts) : Given(i) =>
         /\ opts[i][1] = "M" => child.ns = <<0, FALSE>>
         /\ opts[i][1] = "t" /\ opts[i][2] > 0 => child.ns[1] = opts[i][2]
         /\ opts[i][1] \in {"g", "G"} /\ (\A j \in 1..i - 1 : opts[j][1] \notin {"g", "G"})
              => child.gid = opts[i][2]

\* One of the three can go on without a signal: the guards of Unprompted.
CanGoOn ==
  \/ client.pc = "start"
  \/ client.pc \in {"ack", "ptmx", "code"} /\ Readable
  \/ client.pc = "pump" /\ pty /\ child.pc = "gone"
  \/ server = "decide" \/ (server = "wait" /\ child.pc = "gone")
  \/ child.pc \in {"fds", "pty"} /\ up # <<>>
  \/ child.pc \in {"exec", "shell"}

(* The applet is never left waiting for what nobody will send: until it    *)
(* has returned the code of the shell, an error or a refusal, one of the   *)
(* three can go on without a signal.  And the code it returns is the       *)
(* shell's, not that of anything else.  The exceptions are an applet with  *)
(* a closed stream, and a child that found no terminal to open.            *)
SuReturns ==
  LET whole == AllOpen /\ (NeedsPty /\ child.pc = "gone" => pty) IN
  /\ client.pc # "done" /\ whole => CanGoOn
  /\ client.pc = "done" /\ child.pc = "gone" /\ client.result # "usage" /\ whole
       => client.result = <<"code", child.code>>
=============================================================================
