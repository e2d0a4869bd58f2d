------------------------------- MODULE Shell -------------------------------
(***************************************************************************)
(* The emulated shell of a Cowrie session: the stack of shells and         *)
(* commands, pipelines, substitutions, nested shells, commands that wait   *)
(* for a timer or for input, and the logs of the terminal.                 *)
(*                                                                         *)
(* The code is one call stack of Python: a command's exit() resumes the    *)
(* shell below it, which runs the next pipeline, before call_command() of  *)
(* the first one has returned.  That call stack is explicit here: `cont'   *)
(* is the sequence of calls still to make or to return to, one step of     *)
(* the model makes the first of them, and the environment (the client, the *)
(* reactor's timers) acts only when it is empty.  An exception unwinds it. *)
(***************************************************************************)
EXTENDS Naturals, FiniteSets, SequencesExt

CONSTANTS
  Menu,        \* line name |-> [bad, subs, pend]: what the lexer makes of it
  ExecLines,   \* the lines a client may send as an SSH exec request
  TypedLines,  \* the lines a client may type at an interactive shell
  MaxLines,    \* bound on the lines typed
  MaxDepth     \* max_depth, MAX_SCRIPT_DEPTH

VARIABLES
  proto,    \* HoneyPotExecProtocol or HoneyPotInteractiveProtocol
  phase,    \* "open", "closing" (processEnded), "dropping", "lost"
  obj,      \* every shell and command made so far
  stack,    \* protocol.cmdstack, as indices of obj
  pp,       \* protocol.pp and its chain of next_command; <<>> for None
  cont,     \* the calls to make
  source,   \* what the running calls answer: "exec", "data", "timer"
  timers,   \* the commands with a delayed call
  depth,    \* protocol._script_depth
  prompted, \* a prompt was the last thing the user saw
  raised,   \* an exception was raised in this session
  pipes,    \* pipelines run so far
  ran,      \* the pipeline elements started
  again,    \* an element was started a second time
  bare,     \* the last pipeline or line had nothing to run
  typed,    \* lines typed
  file,     \* the file behind a redirection
  redir,    \* terminal.redirFiles holds it
  logs      \* events written: [tty, redir], and whether ttylog is open

world == <<proto, source, typed>>
history == <<pipes, ran, again, bare>>
disk == <<file, redir, logs>>
vars == <<proto, phase, obj, stack, pp, cont, source, timers, depth, prompted,
          raised, pipes, ran, again, bare, typed, file, redir, logs>>

-----------------------------------------------------------------------------
(* Objects, elements and calls *)

NewShell(inter, capture) ==
  [shell |-> TRUE, inter |-> inter, capture |-> capture, pend |-> <<>>,
   k |-> "", arg |-> "", file |-> "none", in |-> FALSE, left |-> 0]
NewCommand(e) ==
  [shell |-> FALSE, inter |-> FALSE, capture |-> e.capture, pend |-> <<>>,
   k |-> e.k, arg |-> e.arg, file |-> e.file, in |-> e.in, left |-> 2]

\* A call: op, the object it is made on, and a line, pipeline or number.
Call(op, o, x) == [op |-> op, o |-> o, x |-> x]
Goes(calls) == cont' = calls \o Tail(cont)
This == Head(cont).o
Top == Last(stack)
Without(c) == SelectSeq(stack, LAMBDA o : o # c)

\* PipeProtocol: one element of a pipeline, at position i of pipeline n.
\* Inside a substitution stdout is captured, even before a pipe.
Element(c, sh, n, i) ==
  [k |-> c.k, arg |-> c.arg, file |-> c.file, in |-> FALSE,
   capture |-> obj[sh].capture, tag |-> <<n, i>>]
Chain(p, sh, n) == [i \in DOMAIN p |-> Element(p[i], sh, n, i)]
\* insert_command(): a command run by another takes its place in the chain.
Inserted(c, in) ==
  [k |-> obj[c].arg, arg |-> "", file |-> "none", in |-> in,
   capture |-> FALSE, tag |-> Append(Head(pp).tag, 0)]

\* What a command writes to stdout goes to the next element's input_data,
\* unless it is captured or redirected.
PipeToNext(c) ==
  IF Len(pp) > 1 /\ ~obj[c].capture /\ obj[c].file = "none"
  THEN [pp EXCEPT ![2].in = TRUE] ELSE pp
WriteFile(c, how) == IF obj[c].file = "f" THEN how ELSE file

Prompt(sh) == prompted' = (prompted \/ obj[sh].inter)
ProcessEnded == phase' = IF phase = "open" THEN "closing" ELSE phase

\* An exception goes up to the lexer loop of a shell that is expanding a
\* substitution, which drops its pending commands; or out of the callback:
\* a connection dies of it, an exec request or a delayed call does not.
\* The scripts it leaves restore their depth.
Catcher == SelectInSeq(cont, LAMBDA f : f.op = "parsed")
Unwound == SelectSeq(IF Catcher = 0 THEN cont ELSE SubSeq(cont, 1, Catcher),
                     LAMBDA f : f.op = "leave")
Raise ==
  /\ raised' = TRUE
  /\ depth' = IF Unwound = <<>> THEN depth ELSE Last(Unwound).x
  /\ IF Catcher = 0
     THEN /\ cont' = <<>>
          /\ phase' = IF source = "data" THEN "dropping" ELSE phase
          /\ UNCHANGED <<obj, prompted>>
     ELSE LET sh == cont[Catcher].o IN
          /\ cont' = SubSeq(cont, Catcher + 1, Len(cont))
          /\ obj' = [obj EXCEPT ![sh].pend = <<>>]
          /\ Prompt(sh) /\ UNCHANGED phase
  /\ UNCHANGED <<world, history, disk, stack, pp, timers>>

-----------------------------------------------------------------------------
(* HoneyPotShell *)

\* lineReceived: substitutions and subshells run while the line is lexed,
\* each in a shell of its own; a syntax error forgets what is pending.
LineReceived ==
  /\ Head(cont).op = "line"
  /\ LET sh == This
         l == Menu[Head(cont).x] IN
     IF l.bad
     THEN /\ obj' = [obj EXCEPT ![sh].pend = <<>>]
          /\ Prompt(sh) /\ Goes(<<>>) /\ bare' = TRUE
     ELSE /\ UNCHANGED bare
          /\ Goes([i \in DOMAIN l.subs |-> Call("subst", sh, l.subs[i])]
                  \o <<Call("parsed", sh, l.pend)>>)
          /\ UNCHANGED <<obj, prompted>>
  /\ UNCHANGED <<world, disk, phase, stack, pp, timers, depth, raised, pipes, ran, again>>

\* _execute_single_command_with_redirect: a shell is pushed, given the line,
\* and the top of the stack is popped.
Substitute ==
  /\ Head(cont).op = "subst"
  /\ obj' = Append(obj, NewShell(FALSE, TRUE))
  /\ stack' = Append(stack, Len(obj'))
  /\ Goes(<<Call("line", Len(obj'), Head(cont).x), Call("pop", 0, 0)>>)
  /\ UNCHANGED <<world, history, disk, phase, pp, timers, depth, prompted, raised>>

PopTop ==
  /\ Head(cont).op = "pop"
  /\ \/ stack = <<>> /\ Raise
     \/ /\ stack # <<>>
        /\ stack' = Front(stack)
        /\ Goes(<<>>)
        /\ UNCHANGED <<world, history, disk, phase, obj, pp, timers, depth, prompted, raised>>

\* The end of lineReceived: run what is pending, or prompt again.
Parsed ==
  /\ Head(cont).op = "parsed"
  /\ LET sh == This IN
     /\ obj' = [obj EXCEPT ![sh].pend = @ \o Head(cont).x]
     /\ IF obj'[sh].pend # <<>>
        THEN Goes(<<Call("run", sh, 0)>>) /\ UNCHANGED prompted
        ELSE Goes(<<>>) /\ Prompt(sh)
  /\ UNCHANGED <<world, history, disk, phase, stack, pp, timers, depth, raised>>

\* runCommand with nothing pending: the pipe goes on, or the prompt, or the
\* end of the session when the shell is the only thing on the stack.
RunNothing ==
  /\ Head(cont).op = "run" /\ obj[This].pend = <<>>
  /\ Goes(<<>>)
  /\ IF Len(pp) > 1 THEN UNCHANGED <<phase, prompted>>
     ELSE IF obj[This].inter THEN Prompt(This) /\ UNCHANGED phase
     ELSE /\ IF Len(stack) = 1 THEN ProcessEnded ELSE UNCHANGED phase
          /\ UNCHANGED prompted
  /\ UNCHANGED <<world, history, disk, obj, stack, pp, timers, depth, raised>>

Missing(p) == \E i \in DOMAIN p : p[i].k = "missing"
Denied(p) == \E i \in DOMAIN p : p[i].file = "denied"

\* runCommand with a pipeline: no command, a command that does not exist and
\* a redirection that fails run the next pipeline or prompt; otherwise the
\* first command is called.  A command that does not exist ends an exec
\* session when this shell has nothing else pending.
RunCommand ==
  /\ Head(cont).op = "run" /\ obj[This].pend # <<>>
  /\ LET sh == This
         p == Head(obj[sh].pend)
         rest == Tail(obj[sh].pend)
         runs == p # <<>> /\ ~Missing(p) /\ ~Denied(p) IN
     /\ obj' = [obj EXCEPT ![sh].pend = rest]
     /\ pipes' = pipes + 1
     /\ bare' = ~runs
     /\ file' = IF ~Missing(p) /\ \E i \in DOMAIN p : p[i].file = "f" THEN "empty" ELSE file
     /\ IF p # <<>> /\ Missing(p) /\ proto = "exec" /\ rest = <<>>
        THEN ProcessEnded ELSE UNCHANGED phase
     /\ IF runs THEN Goes(<<Call("call", 0, Chain(p, sh, pipes + 1))>>) /\ UNCHANGED prompted
        ELSE IF rest # <<>> THEN Goes(<<Call("run", sh, 0)>>) /\ UNCHANGED prompted
        ELSE Goes(<<>>) /\ Prompt(sh)
  /\ UNCHANGED <<world, stack, pp, timers, depth, raised, ran, again, redir, logs>>

-----------------------------------------------------------------------------
(* call_command and HoneyPotCommand *)

\* call_command: the new command takes its environment from the top of the
\* stack.  When start() returns, the next element of protocol.pp is run,
\* whatever protocol.pp is by then.
CallCommand ==
  /\ Head(cont).op = "call"
  /\ LET chain == Head(cont).x IN
     \/ stack = <<>> /\ Raise
     \/ /\ stack # <<>>
        /\ pp' = chain
        /\ obj' = Append(obj, NewCommand(Head(chain)))
        /\ stack' = Append(stack, Len(obj'))
        /\ ran' = ran \union {Head(chain).tag}
        /\ again' = (again \/ Head(chain).tag \in ran)
        /\ Goes(<<Call("start", Len(obj'), 0), Call("after", 0, 0)>>)
        /\ UNCHANGED <<world, disk, phase, timers, depth, prompted, raised, pipes, bare>>

\* A bug: the chain is not advanced.
SameInChain == IF Len(pp) > 1 THEN <<Call("call", 0, pp)>> ELSE <<>>
NextInChain == IF Len(pp) > 1 THEN <<Call("call", 0, Tail(pp))>> ELSE <<>>

\* outConnectionLost.
OutConnectionLost ==
  /\ Head(cont).op = "after"
  /\ Goes(NextInChain)
  /\ UNCHANGED <<world, history, disk, phase, obj, stack, pp, timers, depth, prompted, raised>>

\* exit(): the redirected files of protocol.pp are noted for the terminal,
\* the command leaves the stack and what is below it is resumed.
ExitCommand ==
  /\ Head(cont).op = "exit"
  /\ LET c == This
         left == Without(c) IN
     /\ redir' = (redir \/ (pp # <<>> /\ Head(pp).file = "f"))
     /\ stack' = left
     /\ Goes(IF stack = <<>> THEN <<>>
             ELSE IF c \notin Range(stack) THEN <<Call("raise", 0, 0)>>
             ELSE IF left # <<>> /\ obj[Last(left)].shell
             THEN <<Call("resume", Last(left), 0)>> ELSE <<>>)
     /\ IF stack = <<>> /\ phase # "lost" THEN ProcessEnded ELSE UNCHANGED phase
  /\ UNCHANGED <<world, history, obj, pp, timers, depth, prompted, raised, file, logs>>
\* A command that is not on the stack cannot be removed from it.
NotOnStack == Head(cont).op = "raise" /\ Raise

\* A bug: an interactive shell is put in insert mode and not run.
ResumeInsertMode ==
  /\ Head(cont).op = "resume"
  /\ Goes(IF obj[This].inter THEN <<>> ELSE <<Call("run", This, 0)>>)
  /\ UNCHANGED <<world, history, disk, phase, obj, stack, pp, timers, depth, prompted, raised>>
\* HoneyPotShell.resume: an exec protocol has no setInsertMode for an
\* interactive shell to call.
Resume ==
  /\ Head(cont).op = "resume"
  /\ \/ obj[This].inter /\ proto = "exec" /\ Raise
     \/ /\ ~(obj[This].inter /\ proto = "exec")
        /\ Goes(<<Call("run", This, 0)>>)
        /\ UNCHANGED <<world, history, disk, phase, obj, stack, pp, timers, depth, prompted, raised>>

Leave ==
  /\ Head(cont).op = "leave"
  /\ depth' = Head(cont).x
  /\ Goes(<<>>)
  /\ UNCHANGED <<world, history, disk, phase, obj, stack, pp, timers, prompted, raised>>

-----------------------------------------------------------------------------
(* start() of each kind of command *)

Exits(c) == <<Call("exit", c, 0)>>
Begin(c, k) == Head(cont).op = "start" /\ c = This /\ obj[c].k = k

\* start() of the base class: call(), then exit().
StartAndExit(c) ==
  /\ Begin(c, "now")
  /\ pp' = PipeToNext(c)
  /\ file' = WriteFile(c, "full")
  /\ Goes(Exits(c))
  /\ UNCHANGED <<obj, stack, timers, depth, phase, prompted>>

\* A reader that got its input from a pipe copies it and exits; without a
\* pipe it waits for lines and CTRL-D.
ReadOrWait(c) ==
  /\ IF obj[c].in
     THEN pp' = PipeToNext(c) /\ file' = WriteFile(c, "full") /\ Goes(Exits(c))
     ELSE UNCHANGED <<pp, file>> /\ Goes(<<>>)
  /\ UNCHANGED <<obj, stack, timers, depth, phase, prompted>>
CatStart(c) == Begin(c, "cat") /\ ReadOrWait(c)
TeeStart(c) == Begin(c, "tee") /\ ReadOrWait(c)
UniqStart(c) == Begin(c, "uniq") /\ ReadOrWait(c)
CutStart(c) == Begin(c, "cut") /\ ReadOrWait(c)
Base64Start(c) == Begin(c, "base64") /\ ReadOrWait(c)
ChpasswdStart(c) == Begin(c, "chpasswd") /\ ReadOrWait(c)
\* tail and head without arguments wait even if a pipe gave them input;
\* dd copies its input and then waits.
TailStart(c) ==
  /\ Begin(c, "tail") /\ Goes(<<>>)
  /\ UNCHANGED <<pp, file, obj, stack, timers, depth, phase, prompted>>
DdStart(c) ==
  /\ Begin(c, "dd") /\ Goes(<<>>)
  /\ IF obj[c].in THEN pp' = PipeToNext(c) /\ file' = WriteFile(c, "open")
     ELSE UNCHANGED <<pp, file>>
  /\ UNCHANGED <<obj, stack, timers, depth, phase, prompted>>
\* perl (and python) exits once for every script named in its arguments.
PerlStart(c) ==
  /\ Begin(c, "perl")
  /\ Goes([i \in 1..obj[c].arg |-> Call("exit", c, 0)])
  /\ UNCHANGED <<pp, file, obj, stack, timers, depth, phase, prompted>>

\* Commands that schedule a delayed call and return.
Schedules(c) ==
  /\ timers' = timers \union {c} /\ Goes(<<>>)
  /\ UNCHANGED <<pp, file, obj, stack, depth, phase, prompted>>
SleepStart(c) == Begin(c, "sleep") /\ Schedules(c)
PingStart(c) == Begin(c, "ping") /\ Schedules(c)
AptStart(c) == Begin(c, "apt") /\ Schedules(c)
YumStart(c) == Begin(c, "yum") /\ Schedules(c)
ShutdownStart(c) == Begin(c, "shutdown") /\ Schedules(c)
AdduserStart(c) == Begin(c, "adduser") /\ Schedules(c)
YesStart(c) ==
  /\ Begin(c, "yes")
  /\ timers' = timers \union {c} /\ Goes(<<>>)
  /\ pp' = PipeToNext(c) /\ file' = WriteFile(c, "open")
  /\ UNCHANGED <<obj, stack, depth, phase, prompted>>
\* passwd and ssh ask questions.
Asks(c) == Goes(<<>>) /\ UNCHANGED <<pp, file, obj, stack, timers, depth, phase, prompted>>
PasswdStart(c) == Begin(c, "passwd") /\ Asks(c)
SshStart(c) == Begin(c, "ssh") /\ Asks(c)

\* A shell of its own for some commands: pushed, given the line, popped.
Executes(c, l, calls) ==
  /\ obj' = Append(obj, NewShell(FALSE, FALSE))
  /\ stack' = Append(stack, Len(obj'))
  /\ Goes(<<Call("line", Len(obj'), l), Call("pop", 0, 0)>> \o calls \o Exits(c))
  /\ UNCHANGED <<pp, file, timers, phase, prompted>>
ShWithLine(c) == Begin(c, "sh-c") /\ Executes(c, obj[c].arg, <<>>) /\ UNCHANGED depth
\* sh with piped input runs it; without, an interactive shell takes its place.
ShInput(c) ==
  /\ Begin(c, "sh") /\ obj[c].in
  /\ Executes(c, obj[c].arg, <<>>) /\ UNCHANGED depth
InteractiveShell(c) ==
  /\ Begin(c, "sh") /\ ~obj[c].in
  /\ obj' = Append(obj, NewShell(TRUE, FALSE))
  /\ stack' = Append(Without(c), Len(obj'))
  /\ prompted' = TRUE /\ Goes(<<>>)
  /\ UNCHANGED <<pp, file, timers, depth, phase>>
\* A script of the virtual file system, by its path or as sh's argument.
ScriptCmd(c) ==
  /\ Begin(c, "script")
  /\ IF depth >= MaxDepth
     THEN Goes(Exits(c)) /\ UNCHANGED <<obj, stack, depth, pp, file, timers, phase, prompted>>
     ELSE Executes(c, obj[c].arg, <<Call("leave", 0, depth)>>) /\ depth' = depth + 1
ExecuteScriptFile(c) ==
  /\ Begin(c, "sh-file")
  /\ IF depth >= MaxDepth
     THEN Goes(Exits(c)) /\ UNCHANGED <<obj, stack, depth, pp, file, timers, phase, prompted>>
     ELSE Executes(c, obj[c].arg, <<Call("leave", 0, depth)>>) /\ depth' = depth + 1

\* exit takes the second last entry off the stack, "which is the shell".
ExitShell(c) ==
  /\ Begin(c, "exit")
  /\ stack' = RemoveAt(stack, Len(stack) - 1)
  /\ IF Len(stack') < 2 THEN ProcessEnded ELSE UNCHANGED phase
  /\ Goes(Exits(c))
  /\ UNCHANGED <<pp, file, obj, timers, depth, prompted>>

\* busybox inserts the applet in the chain and runs it before it exits;
\* sudo inserts the command and exits: call_command runs what comes next.
Busybox(c) ==
  /\ Begin(c, "busybox")
  /\ IF obj[c].arg = "missing"
     THEN Goes(Exits(c)) /\ UNCHANGED pp
     ELSE /\ pp' = <<Head(pp), Inserted(c, obj[c].in)>> \o Tail(pp)
          /\ Goes(<<Call("call", 0, Tail(pp'))>> \o Exits(c))
  /\ UNCHANGED <<file, obj, stack, timers, depth, phase, prompted>>
Sudo(c) ==
  /\ Begin(c, "sudo")
  /\ pp' = IF obj[c].arg = "missing" THEN pp
           ELSE <<Head(pp), Inserted(c, obj[c].in)>> \o Tail(pp)
  /\ Goes(Exits(c))
  /\ UNCHANGED <<file, obj, stack, timers, depth, phase, prompted>>

StartCommand ==
  /\ \E c \in {This} :
       \/ StartAndExit(c) \/ CatStart(c) \/ TeeStart(c) \/ UniqStart(c) \/ CutStart(c)
       \/ Base64Start(c) \/ ChpasswdStart(c) \/ TailStart(c) \/ DdStart(c) \/ PerlStart(c)
       \/ SleepStart(c) \/ PingStart(c) \/ AptStart(c) \/ YumStart(c) \/ YesStart(c)
       \/ ShutdownStart(c) \/ AdduserStart(c) \/ PasswdStart(c) \/ SshStart(c)
       \/ ShWithLine(c) \/ ShInput(c) \/ InteractiveShell(c) \/ ScriptCmd(c)
       \/ ExecuteScriptFile(c) \/ ExitShell(c) \/ Busybox(c) \/ Sudo(c)
  /\ UNCHANGED <<world, history, raised, redir, logs>>

Step ==
  /\ cont # <<>>
  /\ \/ LineReceived \/ Substitute \/ PopTop \/ Parsed \/ RunNothing \/ RunCommand
     \/ CallCommand \/ OutConnectionLost \/ ExitCommand \/ NotOnStack \/ Resume
     \/ Leave \/ StartCommand

-----------------------------------------------------------------------------
(* What the client and the reactor do *)

Idle == cont = <<>>
Starts(what, calls) == source' = what /\ cont' = calls
Typing == Idle /\ proto = "interactive" /\ phase \in {"open", "closing"}
Quiet == UNCHANGED <<proto, phase, obj, stack, pp, depth, raised, history, disk>>

\* A line for the shell on top.
TypeAtShell(l) ==
  /\ Typing /\ typed < MaxLines /\ stack # <<>> /\ obj[Top].shell
  /\ typed' = typed + 1 /\ prompted' = FALSE
  /\ Starts("data", <<Call("line", Top, l)>>)
  /\ UNCHANGED timers /\ Quiet

\* An empty stack: the input is discarded and the session ended.
Discard ==
  /\ Typing /\ typed < MaxLines /\ stack = <<>>
  /\ typed' = typed + 1 /\ ProcessEnded
  /\ UNCHANGED <<proto, source, obj, stack, pp, cont, timers, depth, prompted,
                 raised, history, disk>>

Asking == {"passwd", "ssh", "adduser", "yum"}
Reading == {"cat", "tee", "uniq", "cut", "base64", "chpasswd", "tail", "dd", "perl"}

\* The other commands queue a line with the shell at the bottom of the stack
\* (one pipeline, its tokens split but not parsed).
QueueInput(l) ==
  /\ Typing /\ typed < MaxLines /\ stack # <<>> /\ ~obj[Top].shell
  /\ obj[Top].k \notin Asking \union Reading
  /\ ~Menu[l].bad /\ Menu[l].subs = <<>> /\ Len(Menu[l].pend) = 1
  /\ typed' = typed + 1
  /\ IF obj[stack[1]].shell
     THEN obj' = [obj EXCEPT ![stack[1]].pend = Append(@, Menu[l].pend[1])]
          /\ UNCHANGED <<phase, raised>>
     ELSE raised' = TRUE /\ phase' = "dropping" /\ UNCHANGED obj
  /\ UNCHANGED <<proto, source, stack, pp, cont, timers, depth, prompted, history, disk>>

\* Readers copy the line out; cat and the like write it.
ReadLine ==
  /\ Typing /\ typed < MaxLines /\ stack # <<>> /\ obj[Top].k \in Reading
  /\ typed' = typed + 1
  /\ file' = IF obj[Top].k \in {"cat", "tee", "uniq", "cut"} THEN WriteFile(Top, "open") ELSE file
  /\ UNCHANGED <<proto, phase, source, obj, stack, pp, cont, timers, depth, prompted,
                 raised, history, redir, logs>>

\* passwd exits after two answers; ssh schedules its end after the second.
PasswdLine ==
  /\ Typing /\ typed < MaxLines /\ stack # <<>> /\ obj[Top].k = "passwd"
  /\ typed' = typed + 1
  /\ obj' = [obj EXCEPT ![Top].left = @ - 1]
  /\ Starts("data", IF obj[Top].left = 1 THEN Exits(Top) ELSE <<>>)
  /\ UNCHANGED <<proto, phase, stack, pp, timers, depth, prompted, raised, history, disk>>
SshLine ==
  /\ Typing /\ typed < MaxLines /\ stack # <<>> /\ obj[Top].k = "ssh" /\ obj[Top].left > 0
  /\ typed' = typed + 1
  /\ obj' = [obj EXCEPT ![Top].left = @ - 1]
  /\ timers' = IF obj[Top].left = 1 THEN timers \union {Top} ELSE timers
  /\ UNCHANGED <<proto, phase, source, stack, pp, cont, depth, prompted, raised, history, disk>>
\* adduser: an answer that ends the dialogue, or one that goes on with it.
AdduserLine ==
  /\ Typing /\ typed < MaxLines /\ stack # <<>> /\ obj[Top].k = "adduser"
  /\ typed' = typed + 1 /\ UNCHANGED <<proto, prompted>>
  /\ \/ Starts("data", Exits(Top)) /\ UNCHANGED timers
     \/ timers' = timers \union {Top} /\ UNCHANGED <<source, cont>>
  /\ Quiet
YumLine ==
  /\ Typing /\ typed < MaxLines /\ stack # <<>> /\ obj[Top].k = "yum"
  /\ typed' = typed + 1 /\ timers' = timers \union {Top}
  /\ UNCHANGED <<source, cont, prompted>> /\ Quiet

TypeLine == \/ \E l \in TypedLines : TypeAtShell(l) \/ QueueInput(l)
            \/ Discard \/ ReadLine \/ PasswdLine \/ SshLine \/ AdduserLine \/ YumLine

\* CTRL-C: sleep, ping and yes cancel their timer; the others only exit.
Cancels == {"sleep", "ping", "yes"}
CtrlC ==
  /\ Typing /\ stack # <<>>
  /\ IF obj[Top].shell
     THEN Prompt(Top) /\ UNCHANGED <<source, cont, timers>>
     ELSE /\ Starts("data", Exits(Top))
          /\ timers' = IF obj[Top].k \in Cancels THEN timers \ {Top} ELSE timers
          /\ UNCHANGED prompted
  /\ UNCHANGED typed /\ Quiet
CtrlD ==
  /\ Typing /\ stack # <<>>
  /\ \/ /\ obj[Top].shell /\ ProcessEnded
        /\ UNCHANGED <<source, cont>>
     \/ /\ obj[Top].k \in Reading
        /\ Starts("data", Exits(Top)) /\ UNCHANGED phase
  /\ UNCHANGED <<proto, obj, stack, pp, timers, depth, prompted, raised, typed, history, disk>>

-----------------------------------------------------------------------------
(* Delayed calls *)

Fires(c, k) == Idle /\ c \in timers /\ obj[c].k = k
\* The delayed call ends the command.
Ends(c) ==
  /\ timers' = timers \ {c}
  /\ Starts("timer", Exits(c))
  /\ UNCHANGED <<typed, prompted>> /\ Quiet
\* It waits for an answer, or for the next delayed call.
Waits(c) ==
  /\ timers' = timers \ {c}
  /\ UNCHANGED <<source, cont, typed, prompted>> /\ Quiet

SleepDone(c) == Fires(c, "sleep") /\ Ends(c)
ShowReply(c) == Fires(c, "ping") /\ Ends(c)
AptDone(c) == Fires(c, "apt") /\ Ends(c)
SshFinish(c) == Fires(c, "ssh") /\ Ends(c)
YumDone(c) == Fires(c, "yum") /\ (Ends(c) \/ Waits(c))
AdduserOutput(c) == Fires(c, "adduser") /\ Waits(c)
\* A terminal that is gone raises in finish(): the reactor logs it.
ShutdownFinish(c) ==
  /\ Fires(c, "shutdown")
  /\ timers' = timers \ {c}
  /\ IF phase = "lost" THEN raised' = TRUE /\ UNCHANGED phase
     ELSE ProcessEnded /\ UNCHANGED raised
  /\ UNCHANGED <<proto, source, obj, stack, pp, cont, depth, prompted, typed, history, disk>>

Timer == \E c \in timers :
  SleepDone(c) \/ ShowReply(c) \/ AptDone(c) \/ SshFinish(c) \/ YumDone(c)
  \/ AdduserOutput(c) \/ ShutdownFinish(c)

-----------------------------------------------------------------------------
(* The end of a session *)

\* The idle timer of the session, EOF or too much input from the client.
TimeoutConnection ==
  /\ Idle /\ phase = "open"
  /\ ProcessEnded
  /\ UNCHANGED <<proto, source, obj, stack, pp, cont, timers, depth, prompted, raised,
                 typed, history, disk>>

\* LoggingServerProtocol.connectionLost: what is open is stored and closed.
StoreLogs ==
  /\ logs' = [tty |-> logs.tty + (IF logs.open THEN 1 ELSE 0), open |-> FALSE,
              redir |-> logs.redir + (IF redir /\ file \in {"full", "open"} THEN 1 ELSE 0)]
  /\ file' = IF redir THEN "absent" ELSE file
  /\ redir' = FALSE
ConnectionLost ==
  /\ Idle /\ phase # "lost"
  /\ phase' = "lost" /\ stack' = <<>> /\ pp' = <<>>
  /\ StoreLogs
  /\ UNCHANGED <<world, history, obj, cont, timers, depth, prompted, raised>>
\* "this method is called 4 times on logout".
LostAgain ==
  /\ Idle /\ phase = "lost"
  /\ StoreLogs
  /\ UNCHANGED <<world, history, phase, obj, stack, pp, cont, timers, depth, prompted, raised>>

-----------------------------------------------------------------------------
Init ==
  /\ \/ /\ proto = "interactive" /\ cont = <<>> /\ source = "data" /\ prompted = TRUE
     \/ /\ proto = "exec" /\ source = "exec" /\ prompted = FALSE
        /\ \E l \in ExecLines : cont = <<Call("line", 1, l)>>
  /\ obj = <<NewShell(proto = "interactive", FALSE)>> /\ stack = <<1>>
  /\ phase = "open" /\ pp = <<>> /\ timers = {} /\ depth = 0 /\ raised = FALSE
  /\ pipes = 0 /\ ran = {} /\ again = FALSE /\ bare = FALSE /\ typed = 0
  /\ file = "absent" /\ redir = FALSE /\ logs = [tty |-> 0, open |-> TRUE, redir |-> 0]

Next == Step \/ TypeLine \/ CtrlC \/ CtrlD \/ Timer \/ TimeoutConnection
        \/ ConnectionLost \/ LostAgain

Spec == Init /\ [][Next]_vars

-----------------------------------------------------------------------------
TypeOK ==
  /\ proto \in {"exec", "interactive"} /\ phase \in {"open", "closing", "dropping", "lost"}
  /\ Range(stack) \subseteq DOMAIN obj /\ timers \subseteq DOMAIN obj
  /\ Cardinality(Range(stack)) = Len(stack)
  /\ depth \in 0..MaxDepth /\ typed \in 0..MaxLines
  /\ file \in {"absent", "empty", "open", "full"}
  /\ \A o \in DOMAIN obj : obj[o].left \in 0..2

\* No element of a pipeline runs twice: every call_command() that returns
\* asks protocol.pp for the next command, and exits, inserted commands and
\* nested shells have changed protocol.pp in between.
RunsOnce == ~again

\* The user of an interactive shell that waits for a line has seen a prompt,
\* unless an exception went through the session.
NoLostPrompt ==
  (Idle /\ proto = "interactive" /\ ~raised /\ stack # <<>> /\ obj[Top].inter) => prompted

\* An exec session that has nothing to do is closing.  It waits for its
\* timeout only if a command waits, a nested shell was left on the stack,
\* the line ended in nothing to run, or an exception went through it.
ExecEnds ==
  (Idle /\ proto = "exec" /\ phase = "open" /\ ~raised /\ timers = {} /\ ~bare)
    => Len(stack) > 1

\* The logs are stored once, however often the terminal is told that the
\* connection is lost: the tty log, and a redirected file that a command
\* wrote and closed.
LogsSavedOnce ==
  /\ phase = "lost" => logs.tty = 1 /\ file # "full"
  /\ logs.redir <= 1
\* The command stack is sound, nothing runs twice and the logs of the session are
\* stored once.
ShellInv == TypeOK /\ RunsOnce /\ LogsSavedOnce

\* Nobody waits for nothing: an interactive user has a prompt and an exec client
\* its end.
NobodyWaits == NoLostPrompt /\ ExecEnds
=============================================================================
