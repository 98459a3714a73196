------------------------------ MODULE Processes ------------------------------
(***************************************************************************)
(* The processes of a darkstat: how they start, what they share, how they  *)
(* end (main() outside of its loop, conv.c, pidfile.c, err.c, dns_init and *)
(* dns_stop).                                                              *)
(*                                                                         *)
(* Whoever starts darkstat waits in the starter for the daemon, main, to   *)
(* drop its end of a pipe, the lifeline.  main forks the DNS child, dns.   *)
(* Without daemonizing there is no starter, and main does its first steps. *)
(* All of them inherit the name of the pid file, which err() unlinks, and  *)
(* a pipe with a single byte in it, which verbosef() takes while it prints.*)
(* Any of them may fail or be killed at any step.                          *)
(***************************************************************************)
EXTENDS Naturals, FiniteSets

CONSTANTS MaxSignals   \* bound on the signals sent from outside

ASSUME ProcessesAssumption == MaxSignals \in Nat

Proc == {"starter", "main", "dns"}

VARIABLES
  opt,        \* the options: which of --pidfile, --verbose and so on
  pc,         \* where each process is
  msg,        \* where it is in verbosef
  code,       \* how it ended: EXIT_SUCCESS, another exit code, or a signal
  lockpipe,   \* the bytes in the pipe of verbosef
  lifeline,   \* who has the write end of the lifeline
  dns_sock,   \* who has the parent's end of the DNS socket
  pidname,    \* in whom pidname is set
  file,       \* the pid file; "other" is that of another darkstat
  running,    \* cleared by sig_shutdown and by a failed capture
  handlers,   \* are the signal handlers installed?
  sigint,     \* has dns_stop sent its SIGINT?
  signals,    \* signals sent from outside so far
  seen,       \* what the starter's waitpid saw of main
  erred,      \* history: who called err()
  lost        \* history: was the holder of the byte killed?

shared  == <<lockpipe, lifeline, dns_sock, pidname, file>>
control == <<running, handlers, sigint, signals>>
history == <<seen, erred, lost>>
vars == <<opt, pc, msg, code, shared, control, history>>

Gone  == {"exiting", "exited"}
Alive(p) == pc[p] \notin Gone \cup {"absent"}

(* verbose is --verbose without --syslog, which needs no lock.             *)
Options == [daemonize : BOOLEAN, pidfile : BOOLEAN, dns : BOOLEAN,
            verbose : BOOLEAN]

Init ==
  /\ opt \in Options
  /\ pc = [p \in Proc |->
             IF p = (IF opt.daemonize THEN "starter" ELSE "main")
             THEN "start" ELSE "absent"]
  /\ msg = [p \in Proc |-> "no"]
  /\ code = [p \in Proc |-> "none"]
  /\ lockpipe = 0 /\ lifeline = {} /\ dns_sock = {} /\ pidname = {}
  /\ file \in {"absent", "other"}
  /\ running = TRUE /\ handlers = FALSE /\ sigint = FALSE /\ signals = 0
  /\ seen = "none" /\ erred = {} /\ lost = FALSE

----------------------------------------------------------------------------
(* verbosef takes the byte, prints and puts it back.  Several messages in  *)
(* a row are one here.                                                     *)

(* As lock, but the byte stays in the pipe.                                *)
lockPeeks(p) ==
  /\ msg[p] = "wants" /\ lockpipe > 0
  /\ msg' = [msg EXCEPT ![p] = "prints"]
  /\ UNCHANGED <<opt, pc, code, shared, control, history>>

lock(p) ==
  /\ msg[p] = "wants"
  /\ lockpipe > 0
  /\ lockpipe' = lockpipe - 1
  /\ msg' = [msg EXCEPT ![p] = "prints"]
  /\ UNCHANGED <<opt, pc, code, lifeline, dns_sock, pidname, file, control, history>>

unlock(p) ==
  /\ msg[p] = "prints"
  /\ lockpipe' = lockpipe + 1
  /\ msg' = [msg EXCEPT ![p] = "no"]
  /\ UNCHANGED <<opt, pc, code, lifeline, dns_sock, pidname, file, control, history>>

(* p is at statement l, with its message out.                              *)
at(p, l) == pc[p] = l /\ msg[p] = "no"

verbosef == IF opt.verbose THEN "wants" ELSE "no"

(* p goes on to statement l, silently or with a message.                   *)
quietly(p, l) == pc' = [pc EXCEPT ![p] = l] /\ UNCHANGED msg
saying(p, l)  == pc' = [pc EXCEPT ![p] = l] /\ msg' = [msg EXCEPT ![p] = verbosef]

(* The process p forks q: both go on, q with a copy of everything.         *)
forks(p, l, q, k) ==
  /\ pc' = [pc EXCEPT ![p] = l, ![q] = k]
  /\ msg' = [msg EXCEPT ![p] = verbosef, ![q] = verbosef]
  /\ pidname' = IF p \in pidname THEN pidname \cup {q} ELSE pidname

----------------------------------------------------------------------------
(* The end of a process.  Its descriptors are closed before its parent can *)
(* learn of it (exited).                                                   *)
ends(p, c) ==
  /\ pc' = [pc EXCEPT ![p] = "exiting"]
  /\ msg' = [msg EXCEPT ![p] = "no"]
  /\ code' = [code EXCEPT ![p] = c]
  /\ lifeline' = lifeline \ {p}
  /\ dns_sock' = dns_sock \ {p}

becomes_zombie(p) ==
  /\ pc[p] = "exiting"
  /\ pc' = [pc EXCEPT ![p] = "exited"]
  /\ UNCHANGED <<opt, msg, code, shared, control, history>>

(* unlink() by one of the processes in names.  The directory of the pid    *)
(* file is taken to be writeable, as for --chroot.                         *)
pidfile_unlink(p, names) == file' = IF p \in names THEN "absent" ELSE file

(* err() in a process whose pidname is set if it is in names.              *)
errs(p, names) ==
  /\ ends(p, "failure")
  /\ pidfile_unlink(p, names)
  /\ pidname' = names
  /\ erred' = erred \cup {p}
  /\ UNCHANGED <<opt, lockpipe, control, seen, lost>>

(* The statements that call err() when something they need fails.          *)
Fallible == {"daemonize_start", "read", "write_close", "dns_init", "cap_start",
             "http_listen", "privdrop", "signal", "daemonize_finish", "loop",
             "dns_stop"}

err(p) ==
  /\ pc[p] \in Fallible /\ at(p, pc[p])
  /\ errs(p, pidname)

(* A signal's default action: nothing is cleaned up.                       *)
killed(p) ==
  /\ Alive(p)
  /\ ends(p, "killed")
  /\ lost' = (lost \/ msg[p] = "prints")
  /\ UNCHANGED <<opt, lockpipe, pidname, file, running, handlers, sigint, seen, erred>>

(* sig_shutdown: once main has its handlers, SIGTERM and SIGINT only ask   *)
(* it to stop.                                                             *)
sig_shutdown ==
  /\ handlers /\ Alive("main")
  /\ running' = FALSE
  /\ UNCHANGED <<opt, pc, msg, code, shared, handlers, sigint, history>>

(* A signal from outside: SIGTERM, or SIGKILL, SIGHUP and others, which    *)
(* nothing handles.                                                        *)
kill(p) ==
  /\ signals < MaxSignals
  /\ signals' = signals + 1
  /\ killed(p) \/ (p = "main" /\ sig_shutdown)

----------------------------------------------------------------------------
(* main() up to the fork of daemonize_start.                               *)

(* "must verbosef() before first fork to init lock"                        *)
starting_up(p) ==
  /\ at(p, "start")
  /\ lockpipe' = IF opt.verbose THEN 1 ELSE 0
  /\ saying(p, "pidfile_create")
  /\ UNCHANGED <<opt, code, lifeline, dns_sock, pidname, file, control, history>>

AfterPidfile(p) == IF opt.daemonize THEN saying(p, "daemonize_start")
                                    ELSE quietly(p, "write_close")

(* pidname is set before open(), whose O_EXCL refuses a file that exists;  *)
(* the err() of that refusal unlinks the file it met.  Before that, err()  *)
(* for a missing user or directory leaves it alone.                        *)
pidfile_create(p) ==
  /\ at(p, "pidfile_create")
  /\ IF ~opt.pidfile
     THEN AfterPidfile(p) /\ UNCHANGED <<opt, code, shared, control, history>>
     ELSE \/ /\ file = "absent"
             /\ file' = "empty"
             /\ pidname' = pidname \cup {p}
             /\ AfterPidfile(p)
             /\ UNCHANGED <<opt, code, lockpipe, lifeline, dns_sock, control, history>>
          \/ errs(p, pidname)
          \/ errs(p, pidname \cup {p})

daemonize_start ==
  /\ at("starter", "daemonize_start")
  /\ lifeline' = {"starter", "main"}
  /\ forks("starter", "close", "main", "write_close")
  /\ UNCHANGED <<opt, code, lockpipe, dns_sock, file, control, history>>

----------------------------------------------------------------------------
(* The starter, in daemonize_start: "parent: wait for child".              *)
starter_close ==
  /\ at("starter", "close")
  /\ lifeline' = lifeline \ {"starter"}
  /\ quietly("starter", "read")
  /\ UNCHANGED <<opt, code, lockpipe, dns_sock, pidname, file, control, history>>

starter_read ==
  /\ at("starter", "read")
  /\ lifeline = {}                       \* "expecting EOF"
  /\ saying("starter", "waitpid")
  /\ UNCHANGED <<opt, code, shared, control, history>>

(* With WNOHANG.                                                           *)
starter_waitpid ==
  /\ at("starter", "waitpid")
  /\ seen' = IF pc["main"] = "exited" THEN "exited" ELSE "running"
  /\ saying("starter", "exit")
  /\ UNCHANGED <<opt, code, shared, control, erred, lost>>

(* WEXITSTATUS of a process that a signal ended is 0.                      *)
Status == IF seen = "running" \/ code["main"] = "killed" THEN "success"
          ELSE code["main"]

(* As starter_exit, but cleaning up like the end of main().                *)
starter_exitUnlinks ==
  /\ at("starter", "exit")
  /\ ends("starter", Status)
  /\ pidfile_unlink("starter", pidname)
  /\ UNCHANGED <<opt, lockpipe, pidname, control, history>>

starter_exit ==
  /\ at("starter", "exit")
  /\ ends("starter", Status)
  /\ UNCHANGED <<opt, lockpipe, pidname, file, control, history>>

----------------------------------------------------------------------------
(* main, from the fork to its loop.                                        *)
pidfile_write_close ==
  /\ at("main", "write_close")
  /\ file' = IF opt.pidfile /\ file = "empty" THEN "main" ELSE file
  /\ quietly("main", "dns_init")
  /\ UNCHANGED <<opt, code, lockpipe, lifeline, dns_sock, pidname, control, history>>

dns_init ==
  /\ at("main", "dns_init")
  /\ IF opt.dns
     THEN /\ forks("main", "cap_start", "dns", "privdrop")
          /\ dns_sock' = {"main", "dns"}
          /\ lifeline' = IF "main" \in lifeline THEN lifeline \cup {"dns"} ELSE lifeline
     ELSE quietly("main", "cap_start") /\ UNCHANGED <<dns_sock, lifeline, pidname>>
  /\ UNCHANGED <<opt, code, lockpipe, file, control, history>>

(* Steps that say something and, to the other processes, do nothing.       *)
prepare(l, k) ==
  /\ at("main", l)
  /\ saying("main", k)
  /\ UNCHANGED <<opt, code, shared, control, history>>

cap_start   == prepare("cap_start", "http_listen")
http_listen == prepare("http_listen", "privdrop")
privdrop    == prepare("privdrop", "db_import")
db_import   == prepare("db_import", "signal")   \* and the other initialization

(* As signal_handlers, but "daemonizing" as soon as it can.                *)
signal_handlersFinishes ==
  /\ at("main", "signal")
  /\ handlers' = TRUE
  /\ lifeline' = lifeline \ {"main"}
  /\ saying("main", "daemonize_finish")
  /\ UNCHANGED <<opt, code, lockpipe, dns_sock, pidname, file, running, sigint,
                 signals, history>>

signal_handlers ==
  /\ at("main", "signal")
  /\ handlers' = TRUE
  /\ saying("main", "daemonize_finish")
  /\ UNCHANGED <<opt, code, shared, running, sigint, signals, history>>

daemonize_finish ==
  /\ at("main", "daemonize_finish")
  /\ lifeline' = lifeline \ {"main"}
  /\ quietly("main", "loop")
  /\ UNCHANGED <<opt, code, lockpipe, dns_sock, pidname, file, control, history>>

(* A turn of the loop, which may have something to say and may find that   *)
(* the interface went down.                                                *)
main_loop ==
  /\ at("main", "loop") /\ running
  /\ running' \in BOOLEAN
  /\ saying("main", "loop")
  /\ UNCHANGED <<opt, code, shared, handlers, sigint, signals, history>>

(* The end of the loop: http_stop, cap_stop.                               *)
shutting_down ==
  /\ at("main", "loop") /\ ~running
  /\ saying("main", "dns_stop")
  /\ UNCHANGED <<opt, code, shared, control, history>>

dns_stop ==
  /\ at("main", "dns_stop")
  /\ IF opt.dns
     THEN /\ dns_sock' = dns_sock \ {"main"}
          /\ sigint' = TRUE
          /\ saying("main", "waitpid")
     ELSE quietly("main", "unlink") /\ UNCHANGED <<dns_sock, sigint>>
  /\ UNCHANGED <<opt, code, lockpipe, lifeline, pidname, file, running, handlers,
                 signals, history>>

waitpid ==
  /\ at("main", "waitpid")
  /\ pc["dns"] = "exited"
  /\ saying("main", "unlink")
  /\ UNCHANGED <<opt, code, shared, control, history>>

(* db_export, daylog_free and the like; then pidfile_unlink.               *)
shut_down ==
  /\ at("main", "unlink")
  /\ pidfile_unlink("main", pidname)
  /\ saying("main", "return")
  /\ UNCHANGED <<opt, code, lockpipe, lifeline, dns_sock, pidname, control, history>>

main_return ==
  /\ at("main", "return")
  /\ ends("main", "success")
  /\ UNCHANGED <<opt, lockpipe, pidname, file, control, history>>

----------------------------------------------------------------------------
(* The DNS child.                                                          *)
child_privdrop ==
  /\ at("dns", "privdrop")
  /\ saying("dns", "close")
  /\ UNCHANGED <<opt, code, shared, control, history>>

(* As child_close, but keeping the copy.                                   *)
child_closeNot ==
  /\ at("dns", "close")
  /\ quietly("dns", "daemonize_finish")
  /\ UNCHANGED <<opt, code, shared, control, history>>

child_close ==
  /\ at("dns", "close")
  /\ dns_sock' = dns_sock \ {"dns"}
  /\ quietly("dns", "daemonize_finish")
  /\ UNCHANGED <<opt, code, lockpipe, lifeline, pidname, file, control, history>>

(* As child_finish, but keeping the copy.                                  *)
child_finishNot ==
  /\ at("dns", "daemonize_finish")
  /\ saying("dns", "loop")
  /\ UNCHANGED <<opt, code, shared, control, history>>

(* "drop our copy of the lifeline!"                                        *)
child_finish ==
  /\ at("dns", "daemonize_finish")
  /\ lifeline' = lifeline \ {"dns"}
  /\ saying("dns", "loop")
  /\ UNCHANGED <<opt, code, lockpipe, dns_sock, pidname, file, control, history>>

(* dns_main: requests, lookups, replies, and a message for each.           *)
child_loop ==
  /\ at("dns", "loop")
  /\ dns_sock # {}
  /\ saying("dns", "loop")
  /\ UNCHANGED <<opt, code, shared, control, history>>

(* "end of file, nothing more to do here"; or SIGPIPE, while replying.     *)
child_exit ==
  /\ at("dns", "loop")
  /\ dns_sock = {}
  /\ \E c \in {"success", "killed"} : ends("dns", c)
  /\ UNCHANGED <<opt, lockpipe, pidname, file, control, history>>

child_sigint ==
  /\ sigint
  /\ killed("dns")
  /\ UNCHANGED signals

----------------------------------------------------------------------------
Starter == \/ daemonize_start \/ starter_close \/ starter_read
           \/ starter_waitpid \/ starter_exit
Main    == \/ pidfile_write_close \/ dns_init \/ cap_start \/ http_listen
           \/ privdrop \/ db_import \/ signal_handlers \/ daemonize_finish
           \/ main_loop \/ shutting_down \/ dns_stop \/ waitpid \/ shut_down
           \/ main_return
Child   == child_privdrop \/ child_close \/ child_finish \/ child_loop \/ child_exit
First(p) == starting_up(p) \/ pidfile_create(p)

(* Everyone is gone; or the byte is, and the others wait for it for ever.  *)
Stopped ==
  /\ lost \/ \A p \in Proc : pc[p] \in {"absent", "exited"}
  /\ UNCHANGED vars

Next ==
  \/ \E p \in Proc : lock(p) \/ unlock(p) \/ becomes_zombie(p)
  \/ \E p \in Proc : err(p)
  \/ \E p \in Proc : kill(p)
  \/ \E p \in Proc : First(p)
  \/ Starter \/ Main \/ Child \/ child_sigint
  \/ Stopped

Spec == Init /\ [][Next]_vars

(***************************************************************************)
(* Every process goes on when it can: interfaces come up or are given up   *)
(* on, lookups end, a SIGINT that was sent is delivered.  Readers of the   *)
(* pipe are woken in the order in which they came, so a process that waits *)
(* for the byte gets it if it is put back again and again.                 *)
(***************************************************************************)
Fairness ==
  /\ \A p \in Proc : /\ SF_vars(lock(p))
                     /\ WF_vars(unlock(p)) /\ WF_vars(becomes_zombie(p))
                     /\ WF_vars(First(p))
  /\ WF_vars(Starter) /\ WF_vars(Main) /\ WF_vars(Child) /\ WF_vars(child_sigint)

FairSpec == Spec /\ Fairness

----------------------------------------------------------------------------
TypeOK ==
  /\ opt \in Options
  /\ pc \in [Proc -> Fallible \cup Gone \cup
               {"absent", "start", "pidfile_create", "close", "waitpid", "exit",
                "db_import", "unlink", "return"}]
  /\ msg \in [Proc -> {"no", "wants", "prints"}]
  /\ code \in [Proc -> {"none", "success", "failure", "killed"}]
  /\ lockpipe \in Nat
  /\ lifeline \subseteq Proc /\ dns_sock \subseteq Proc /\ pidname \subseteq Proc
  /\ file \in {"absent", "empty", "main", "other"}
  /\ running \in BOOLEAN /\ handlers \in BOOLEAN /\ sigint \in BOOLEAN
  /\ signals \in Nat
  /\ seen \in {"none", "running", "exited"}
  /\ erred \subseteq Proc /\ lost \in BOOLEAN

(* Messages of different processes do not mix: at most one prints, and     *)
(* then the byte is not in the pipe.  It is never in there twice, and it   *)
(* is nowhere only if its holder was killed (lock, unlock).                *)
MessagesApart ==
  LET printing == {p \in Proc : msg[p] = "prints"} IN
  /\ lockpipe + Cardinality(printing) <= 1
  /\ (\E p \in Proc : msg[p] # "no") /\ ~lost =>
       lockpipe + Cardinality(printing) = 1

(* The pid file, which three processes could unlink, names the main        *)
(* process for as long as its loop runs, unless one of the others called   *)
(* err(); and no file of ours is left behind, except by a process that was *)
(* killed before it could unlink it (pidfile_unlink and its callers).      *)
PidfileIsRight ==
  /\ opt.pidfile /\ pc["main"] = "loop" /\ erred = {} => file = "main"
  /\ (\A p \in Proc : ~Alive(p)) /\ (\A p \in Proc : code[p] # "killed") =>
       file \in {"absent", "other"}

(* Whoever starts the daemon learns how that went: the starter does not    *)
(* report before main has finished its preparations or died, it reports a  *)
(* failure only if there was one, and success for a main that failed only  *)
(* if that was about to exit, or was killed (daemonize_start, _finish).    *)
ReportIsRight ==
  code["starter"] \in {"success", "failure"} /\ "starter" \notin erred =>
    /\ pc["main"] \in {"loop", "dns_stop", "waitpid", "unlink", "return"} \cup Gone
    /\ code["starter"] = "failure" => code["main"] = "failure"
    /\ code["starter"] = "success" /\ code["main"] = "failure" => seen = "running"

(* The starter ends, although the DNS child too holds the lifeline.        *)
StarterEnds ==
  pc["starter"] = "read" ~> (pc["starter"] \in Gone \/ lost)

(* Once main is told to stop, or dies, nothing of darkstat stays behind:   *)
(* the DNS child ends by itself when main is gone, dns_stop gets past its  *)
(* waitpid otherwise.  Unless the byte was lost with a process.            *)
NobodyStays ==
  (~running \/ pc["main"] = "exited") ~>
    ((\A p \in Proc : ~Alive(p)) \/ lost)

(* dns_stop returns, and the program ends.                                 *)
StopReturns == pc["main"] = "dns_stop" ~> pc["main"] = "exited"
=============================================================================
