------------------------------ MODULE MCShell ------------------------------
(***************************************************************************)
(* A session of each backend: the emulated shell, the LLM, or a guest      *)
(* behind the proxy (its SFTP channel; the rest is in Proxy).              *)
(***************************************************************************)
EXTENDS Shell, Llm, SftpTap

VARIABLE backend  \* "shell", "llm" or "proxy", of the configuration

MCInit ==
  /\ backend \in {"shell", "llm", "proxy"}
  /\ Init /\ LlmInit /\ SftpInit
  \* The backend that is not configured stays in one initial state.
  /\ backend # "llm" => link = "ssh" /\ ~anthropic /\ ~broken
  /\ backend # "shell" => proto = "interactive"
MCNext ==
  /\ UNCHANGED backend
  /\ \/ backend = "shell" /\ Next /\ UNCHANGED <<llmVars, sftpVars>>
     \/ backend = "llm" /\ LlmNext /\ UNCHANGED <<vars, sftpVars>>
     \/ backend = "proxy" /\ SftpNext /\ UNCHANGED <<vars, llmVars>>
MCSpec == MCInit /\ [][MCNext]_<<backend, vars, llmVars, sftpVars>>

MCPaths == {<<"a">>, <<"get">>, <<"raw">>}

c(k) == [k |-> k, arg |-> "", file |-> "none"]
w(k, a) == [k |-> k, arg |-> a, file |-> "none"]
f(k) == [k |-> k, arg |-> "", file |-> "f"]
one(p) == [bad |-> FALSE, subs |-> <<>>, pend |-> <<p>>]
two(p, q) == [bad |-> FALSE, subs |-> <<>>, pend |-> <<p, q>>]
sub(l, p) == [bad |-> FALSE, subs |-> <<l>>, pend |-> <<p>>]

MCMenu == [
  now |-> one(<<c("now")>>),
  nowFile |-> one(<<f("now")>>),
  exit |-> one(<<c("exit")>>),
  sleep |-> one(<<c("sleep")>>),
  missing |-> two(<<c("missing")>>, <<c("now")>>),
  last |-> one(<<c("now"), c("missing")>>),
  bad |-> [bad |-> TRUE, subs |-> <<>>, pend |-> <<>>],
  bare |-> two(<<c("now")>>, <<>>),
  denied |-> one(<<[c("now") EXCEPT !.file = "denied"]>>),
  three |-> two(<<f("now"), c("cat"), c("uniq")>>, <<c("now")>>),
  pipe |-> one(<<c("now"), c("tee"), c("cut"), c("base64")>>),
  users |-> one(<<c("now"), c("chpasswd"), c("tail")>>),
  copy |-> one(<<c("now"), f("dd")>>),
  cat |-> two(<<f("cat")>>, <<c("now")>>),
  perl |-> one(<<w("perl", 2)>>),
  sleepPipe |-> two(<<f("sleep"), c("now")>>, <<c("now")>>),
  ping |-> one(<<c("ping"), c("exit")>>),
  apt |-> two(<<c("apt")>>, <<c("now")>>),
  yum |-> one(<<c("yum")>>),
  yes |-> one(<<c("yes"), c("cat")>>),
  shutdown |-> one(<<c("shutdown")>>),
  adduser |-> one(<<c("adduser")>>),
  passwd |-> one(<<c("passwd")>>),
  ssh |-> one(<<c("ssh")>>),
  shc |-> two(<<w("sh-c", "bare"), c("now")>>, <<c("now")>>),
  shSleep |-> two(<<w("sh-c", "sleepPipe")>>, <<c("now")>>),
  shExit |-> two(<<w("sh-c", "exit")>>, <<c("now")>>),
  shPipe |-> one(<<c("now"), w("sh", "missing")>>),
  sh |-> two(<<w("sh", "now")>>, <<c("now")>>),
  script |-> one(<<w("script", "script")>>),
  shFile |-> one(<<w("sh-file", "shFile")>>),
  subst |-> sub("now", <<c("now")>>),
  substPipe |-> sub("pipe", <<c("now")>>),
  substExit |-> sub("exit", <<c("now")>>),
  substRaise |-> sub("shExit", <<c("now")>>),
  busybox |-> two(<<w("busybox", "now"), c("cat")>>, <<c("now")>>),
  busyboxSleep |-> one(<<w("busybox", "sleep")>>),
  busyboxExit |-> one(<<w("busybox", "exit")>>),
  busyboxNone |-> one(<<w("busybox", "missing")>>),
  sudo |-> one(<<c("now"), w("sudo", "cat"), c("cat")>>),
  sudoThen |-> two(<<w("sudo", "now")>>, <<c("now")>>),
  sudoNone |-> one(<<w("sudo", "missing")>>)]

MCExec == DOMAIN MCMenu
MCTyped == {"now", "exit", "sleep", "three", "cat", "apt", "yum", "adduser", "passwd", "ssh",
            "shSleep", "sh", "substPipe", "substExit", "busyboxSleep", "sudoThen", "ping",
            "shutdown", "bad"}
=============================================================================
