-------------------------- MODULE ProcessesProofs --------------------------
(***************************************************************************)
(* The safety properties of Processes, for any options, any failures and   *)
(* any number of signals.                                                  *)
(***************************************************************************)
EXTENDS Processes, FiniteSetTheorems, TLAPS

(* The statements that main executes before and after it has finished    *)
(* daemonizing.                                                          *)
Early == {"write_close", "dns_init", "cap_start", "http_listen", "privdrop",
          "db_import", "signal", "daemonize_finish"}
Late  == {"loop", "dns_stop", "waitpid", "unlink", "return"}

(* Where each process may be, and that it has an exit code once it       *)
(* ended. The forks: main comes after the starter's first steps, dns     *)
(* after main's.                                                         *)
Stages ==
  /\ pc["starter"] \in Gone \cup {"absent", "start", "pidfile_create",
       "daemonize_start", "close", "read", "waitpid", "exit"}
  /\ pc["main"] \in Early \cup Late \cup Gone \cup {"absent", "start", "pidfile_create"}
  /\ pc["dns"] \in Gone \cup {"absent", "privdrop", "close", "daemonize_finish", "loop"}
  /\ opt.daemonize <=> pc["starter"] # "absent"
  /\ opt.daemonize => pc["main"] \notin {"start", "pidfile_create"}
  /\ ~opt.daemonize => pc["main"] # "absent"
  /\ pc["starter"] \in {"start", "pidfile_create", "daemonize_start"} =>
       pc["main"] = "absent"
  /\ pc["starter"] \in {"close", "read", "waitpid", "exit"} => pc["main"] # "absent"
  /\ pc["main"] \in {"absent", "start", "pidfile_create", "write_close", "dns_init"} =>
       pc["dns"] = "absent"
  /\ \A p \in Proc : code[p] = "none" <=> pc[p] \notin Gone

(* The byte of verbosef is in the pipe or with the one that prints, from *)
(* the first message on, until it is lost.                               *)
ByteInv ==
  /\ lockpipe \in {0, 1}
  /\ ~opt.verbose => lockpipe = 0 /\ \A p \in Proc : msg[p] = "no"
  /\ \A p \in Proc : msg[p] # "no" => Alive(p) /\ pc[p] # "start"
  /\ \A p \in Proc : msg[p] = "prints" =>
       lockpipe = 0 /\ \A q \in Proc : msg[q] = "prints" => q = p
  /\ \A p \in Proc : pc[p] = "start" => lockpipe = 0
  /\ opt.verbose /\ ~lost /\ (\E p \in Proc : Alive(p) /\ pc[p] # "start") =>
       lockpipe = 1 \/ \E p \in Proc : msg[p] = "prints"

(* A process that was killed, or that is yet to unlink the pid file.     *)
Killed == \E p \in Proc : code[p] = "killed"
ToUnlink ==
  \/ pc["starter"] = "daemonize_start" /\ "starter" \in pidname
  \/ Alive("main") /\ pc["main"] # "return" /\ "main" \in pidname

FileInv ==
  /\ opt.pidfile /\ erred = {} =>
       /\ pc["starter"] = "daemonize_start" \/ pc["main"] = "write_close" =>
            file = "empty"
       /\ pc["main"] \in (Early \cup Late) \ {"write_close", "return"} => file = "main"
  /\ file \in {"empty", "main"} => Killed \/ ToUnlink

(* The starter ended by itself and gave its caller an exit code.         *)
Reported == code["starter"] \in {"success", "failure"} /\ "starter" \notin erred

(* Until it finished daemonizing, main holds the lifeline.               *)
ReportInv ==
  /\ opt.daemonize /\ pc["main"] \in Early => "main" \in lifeline
  /\ pc["starter"] \in {"waitpid", "exit"} \/ Reported => pc["main"] \in Late \cup Gone
  /\ seen = "exited" => pc["main"] = "exited"
  /\ pc["starter"] = "exit" \/ Reported => seen # "none"
  /\ Reported =>
       code["starter"] = IF seen = "running" \/ code["main"] = "killed"
                         THEN "success" ELSE code["main"]

IInv == TypeOK /\ Stages /\ ByteInv /\ FileInv /\ ReportInv

----------------------------------------------------------------------------
(* The invariant holds when main is entered.                             *)
LEMMA InitInv == Init => IInv
<1> SUFFICES ASSUME Init PROVE IInv
  OBVIOUS
<1> USE DEF Init, Options, Proc, Gone, Alive, Early, Late
<1>1. TypeOK
  BY DEF TypeOK, Fallible
<1>2. Stages
  BY DEF Stages
<1>3. ByteInv
  BY DEF ByteInv
<1>4. FileInv
  BY DEF FileInv
<1>5. ReportInv
  BY DEF ReportInv, Reported
<1> QED BY <1>1, <1>2, <1>3, <1>4, <1>5 DEF IInv

(* Each step keeps the types.                                            *)
LEMMA TypeStep == ASSUME TypeOK, [Next]_vars PROVE TypeOK'
<1> USE DEF TypeOK, Proc, Gone, Alive, at, Fallible, control, shared, history
<1>1. ASSUME NEW p \in Proc, lock(p) PROVE TypeOK'
  BY <1>1 DEF lock
<1>2. ASSUME NEW p \in Proc, unlock(p) PROVE TypeOK'
  BY <1>2 DEF unlock
<1>3. ASSUME NEW p \in Proc, becomes_zombie(p) PROVE TypeOK'
  BY <1>3 DEF becomes_zombie
<1>4. ASSUME NEW p \in Proc, err(p) PROVE TypeOK'
  BY <1>4 DEF err, errs, ends, pidfile_unlink
<1>5. ASSUME NEW p \in Proc, kill(p) PROVE TypeOK'
  <2>1. signals' \in Nat
    BY <1>5 DEF kill
  <2>2. CASE sig_shutdown
    BY <2>1, <2>2 DEF sig_shutdown
  <2>3. CASE killed(p)
    <3>1. lost' \in BOOLEAN
      BY <2>3, Zenon DEF killed
    <3> QED BY <2>1, <2>3, <3>1 DEF killed, ends
  <2> QED BY <1>5, <2>2, <2>3 DEF kill
<1>6. ASSUME NEW p \in Proc, starting_up(p) PROVE TypeOK'
  BY <1>6 DEF starting_up, saying, verbosef
<1>7. ASSUME NEW p \in Proc, pidfile_create(p) PROVE TypeOK'
  <2>1. ASSUME NEW names \in SUBSET Proc, errs(p, names) PROVE TypeOK'
    BY <2>1 DEF errs, ends, pidfile_unlink
  <2>3. pidname \in SUBSET Proc /\ pidname \cup {p} \in SUBSET Proc
    OBVIOUS
  <2>2. CASE AfterPidfile(p) /\ file' \in {"empty", file} /\ pidname' \in {pidname, pidname \cup {p}}
             /\ UNCHANGED <<opt, code, lockpipe, lifeline, dns_sock, control, history>>
    <3>1. pc'[p] \in {"daemonize_start", "write_close"} /\ pc' = [pc EXCEPT ![p] = pc'[p]]
      BY <2>2 DEF AfterPidfile, saying, quietly
    <3>2. msg' \in [Proc -> {"no", "wants", "prints"}]
      BY <2>2 DEF AfterPidfile, saying, quietly, verbosef
    <3> QED BY <2>2, <3>1, <3>2
  <2> QED BY <1>7, <2>1, <2>3, <2>2 DEF pidfile_create
<1>8. CASE daemonize_start
  BY <1>8 DEF daemonize_start, forks, verbosef
<1>9. CASE starter_close
  BY <1>9 DEF starter_close, quietly
<1>10. CASE starter_read
  BY <1>10 DEF starter_read, saying, verbosef
<1>11. CASE starter_waitpid
  BY <1>11 DEF starter_waitpid, saying, verbosef
<1>12. CASE starter_exit
  BY <1>12 DEF starter_exit, ends, Status
<1>13. CASE pidfile_write_close
  BY <1>13 DEF pidfile_write_close, quietly
<1>14. CASE dns_init
  <2>1. CASE opt.dns
    <3>1. /\ pc' = [pc EXCEPT !["main"] = "cap_start", !["dns"] = "privdrop"]
          /\ msg' \in [Proc -> {"no", "wants", "prints"}]
      BY <1>14, <2>1 DEF dns_init, forks, verbosef
    <3>2. dns_sock' = {"main", "dns"} /\ lifeline' \in {lifeline, lifeline \cup {"dns"}}
      BY <1>14, <2>1 DEF dns_init
    <3>3. pidname' \in {pidname, pidname \cup {"dns"}}
      BY <1>14, <2>1 DEF dns_init, forks
    <3>4. dns_sock' \subseteq Proc /\ lifeline' \subseteq Proc /\ pidname' \subseteq Proc
      BY <3>2, <3>3
    <3> QED BY <1>14, <3>1, <3>4 DEF dns_init
  <2>2. CASE ~opt.dns
    BY <1>14, <2>2 DEF dns_init, quietly
  <2> QED BY <2>1, <2>2
<1>15. CASE cap_start
  BY <1>15 DEF cap_start, prepare, saying, verbosef
<1>16. CASE http_listen
  BY <1>16 DEF http_listen, prepare, saying, verbosef
<1>17. CASE privdrop
  BY <1>17 DEF privdrop, prepare, saying, verbosef
<1>18. CASE db_import
  BY <1>18 DEF db_import, prepare, saying, verbosef
<1>19. CASE signal_handlers
  BY <1>19 DEF signal_handlers, saying, verbosef
<1>20. CASE daemonize_finish
  BY <1>20 DEF daemonize_finish, quietly
<1>21. CASE main_loop
  BY <1>21 DEF main_loop, saying, verbosef
<1>22. CASE shutting_down
  BY <1>22 DEF shutting_down, saying, verbosef
<1>23. CASE dns_stop
  <2>1. CASE opt.dns
    <3>1. sigint' = TRUE /\ dns_sock' = dns_sock \ {"main"} /\ saying("main", "waitpid")
      BY <1>23, <2>1 DEF dns_stop
    <3>2. sigint' \in BOOLEAN
      BY <3>1, Zenon
    <3> QED BY <1>23, <3>1, <3>2 DEF dns_stop, saying, verbosef
  <2>2. CASE ~opt.dns
    BY <1>23, <2>2 DEF dns_stop, quietly
  <2> QED BY <2>1, <2>2
<1>24. CASE waitpid
  BY <1>24 DEF waitpid, saying, verbosef
<1>25. CASE shut_down
  BY <1>25 DEF shut_down, saying, verbosef, pidfile_unlink
<1>26. CASE main_return
  BY <1>26 DEF main_return, ends
<1>27. CASE child_privdrop
  BY <1>27 DEF child_privdrop, saying, verbosef
<1>28. CASE child_close
  BY <1>28 DEF child_close, quietly
<1>29. CASE child_finish
  BY <1>29 DEF child_finish, saying, verbosef
<1>30. CASE child_loop
  BY <1>30 DEF child_loop, saying, verbosef
<1>31. CASE child_exit
  BY <1>31 DEF child_exit, ends
<1>32. CASE child_sigint
  BY <1>32 DEF child_sigint, killed, ends
<1>33. CASE Stopped \/ UNCHANGED vars
  BY <1>33 DEF Stopped, vars
<1> QED BY <1>1, <1>2, <1>3, <1>4, <1>5, <1>6, <1>7, <1>8, <1>9, <1>10, <1>11,
          <1>12, <1>13, <1>14, <1>15, <1>16, <1>17, <1>18, <1>19, <1>20, <1>21,
          <1>22, <1>23, <1>24, <1>25, <1>26, <1>27, <1>28, <1>29, <1>30, <1>31,
          <1>32, <1>33 DEF Next, First, Starter, Main, Child

(* No process takes a statement before its turn, or without an exit      *)
(* code.                                                                 *)
LEMMA StageStep == ASSUME TypeOK, Stages, ReportInv, [Next]_vars PROVE Stages'
<1> USE DEF TypeOK, Stages, ReportInv, Proc, Gone, Alive, Early, Late, at,
            Fallible, Options, control, shared, history
<1>1. ASSUME NEW p \in Proc, lock(p) PROVE Stages'
  BY <1>1 DEF lock
<1>2. ASSUME NEW p \in Proc, unlock(p) PROVE Stages'
  BY <1>2 DEF unlock
<1>3. ASSUME NEW p \in Proc, becomes_zombie(p) PROVE Stages'
  BY <1>3 DEF becomes_zombie
<1>4. ASSUME NEW p \in Proc, err(p) PROVE Stages'
  BY <1>4 DEF err, errs, ends, pidfile_unlink
<1>5. ASSUME NEW p \in Proc, kill(p) PROVE Stages'
  BY <1>5 DEF kill, killed, ends, sig_shutdown
<1>6. ASSUME NEW p \in Proc, starting_up(p) PROVE Stages'
  BY <1>6 DEF starting_up, saying, verbosef
<1>7. ASSUME NEW p \in Proc, pidfile_create(p) PROVE Stages'
  BY <1>7 DEF pidfile_create, AfterPidfile, saying, quietly, verbosef, errs,
              ends, pidfile_unlink
<1>8. CASE daemonize_start
  BY <1>8 DEF daemonize_start, forks, verbosef
<1>9. CASE starter_close
  BY <1>9 DEF starter_close, quietly
<1>10. CASE starter_read
  BY <1>10 DEF starter_read, saying, verbosef
<1>11. CASE starter_waitpid
  BY <1>11 DEF starter_waitpid, saying, verbosef
<1>12. CASE starter_exit
  BY <1>12 DEF starter_exit, ends, Status
<1>13. CASE pidfile_write_close
  BY <1>13 DEF pidfile_write_close, quietly
<1>14. CASE dns_init
  BY <1>14 DEF dns_init, forks, quietly, verbosef
<1>15. CASE cap_start
  BY <1>15 DEF cap_start, prepare, saying, verbosef
<1>16. CASE http_listen
  BY <1>16 DEF http_listen, prepare, saying, verbosef
<1>17. CASE privdrop
  BY <1>17 DEF privdrop, prepare, saying, verbosef
<1>18. CASE db_import
  BY <1>18 DEF db_import, prepare, saying, verbosef
<1>19. CASE signal_handlers
  BY <1>19 DEF signal_handlers, saying, verbosef
<1>20. CASE daemonize_finish
  BY <1>20 DEF daemonize_finish, quietly
<1>21. CASE main_loop
  BY <1>21 DEF main_loop, saying, verbosef
<1>22. CASE shutting_down
  BY <1>22 DEF shutting_down, saying, verbosef
<1>23. CASE dns_stop
  BY <1>23 DEF dns_stop, saying, quietly, verbosef
<1>24. CASE waitpid
  BY <1>24 DEF waitpid, saying, verbosef
<1>25. CASE shut_down
  BY <1>25 DEF shut_down, saying, verbosef, pidfile_unlink
<1>26. CASE main_return
  BY <1>26 DEF main_return, ends
<1>27. CASE child_privdrop
  BY <1>27 DEF child_privdrop, saying, verbosef
<1>28. CASE child_close
  BY <1>28 DEF child_close, quietly
<1>29. CASE child_finish
  BY <1>29 DEF child_finish, saying, verbosef
<1>30. CASE child_loop
  BY <1>30 DEF child_loop, saying, verbosef
<1>31. CASE child_exit
  BY <1>31 DEF child_exit, ends
<1>32. CASE child_sigint
  BY <1>32 DEF child_sigint, killed, ends
<1>33. CASE Stopped \/ UNCHANGED vars
  BY <1>33 DEF Stopped, vars
<1> QED BY <1>1, <1>2, <1>3, <1>4, <1>5, <1>6, <1>7, <1>8, <1>9, <1>10, <1>11,
          <1>12, <1>13, <1>14, <1>15, <1>16, <1>17, <1>18, <1>19, <1>20, <1>21,
          <1>22, <1>23, <1>24, <1>25, <1>26, <1>27, <1>28, <1>29, <1>30, <1>31,
          <1>32, <1>33 DEF Next, First, Starter, Main, Child

(* The byte is passed on, and nobody makes another.                      *)
LEMMA ByteStep == ASSUME TypeOK, Stages, ByteInv, [Next]_vars PROVE ByteInv'
<1> USE DEF TypeOK, Stages, ByteInv, Proc, Gone, Alive, Early, Late, at,
            Fallible, Options, control, shared, history
<1>1. ASSUME NEW p \in Proc, lock(p) PROVE ByteInv'
  BY <1>1 DEF lock
<1>2. ASSUME NEW p \in Proc, unlock(p) PROVE ByteInv'
  BY <1>2 DEF unlock
<1>3. ASSUME NEW p \in Proc, becomes_zombie(p) PROVE ByteInv'
  BY <1>3 DEF becomes_zombie
<1>4. ASSUME NEW p \in Proc, err(p) PROVE ByteInv'
  BY <1>4 DEF err, errs, ends, pidfile_unlink
<1>5. ASSUME NEW p \in Proc, kill(p) PROVE ByteInv'
  BY <1>5 DEF kill, killed, ends, sig_shutdown
<1>6. ASSUME NEW p \in Proc, starting_up(p) PROVE ByteInv'
  BY <1>6 DEF starting_up, saying, verbosef
<1>7. ASSUME NEW p \in Proc, pidfile_create(p) PROVE ByteInv'
  BY <1>7 DEF pidfile_create, AfterPidfile, saying, quietly, verbosef, errs,
              ends, pidfile_unlink
<1>8. CASE daemonize_start
  BY <1>8 DEF daemonize_start, forks, verbosef
<1>9. CASE starter_close
  BY <1>9 DEF starter_close, quietly
<1>10. CASE starter_read
  BY <1>10 DEF starter_read, saying, verbosef
<1>11. CASE starter_waitpid
  BY <1>11 DEF starter_waitpid, saying, verbosef
<1>12. CASE starter_exit
  BY <1>12 DEF starter_exit, ends, Status
<1>13. CASE pidfile_write_close
  BY <1>13 DEF pidfile_write_close, quietly
<1>14. CASE dns_init
  BY <1>14 DEF dns_init, forks, quietly, verbosef
<1>15. CASE cap_start
  BY <1>15 DEF cap_start, prepare, saying, verbosef
<1>16. CASE http_listen
  BY <1>16 DEF http_listen, prepare, saying, verbosef
<1>17. CASE privdrop
  BY <1>17 DEF privdrop, prepare, saying, verbosef
<1>18. CASE db_import
  BY <1>18 DEF db_import, prepare, saying, verbosef
<1>19. CASE signal_handlers
  BY <1>19 DEF signal_handlers, saying, verbosef
<1>20. CASE daemonize_finish
  BY <1>20 DEF daemonize_finish, quietly
<1>21. CASE main_loop
  BY <1>21 DEF main_loop, saying, verbosef
<1>22. CASE shutting_down
  BY <1>22 DEF shutting_down, saying, verbosef
<1>23. CASE dns_stop
  BY <1>23 DEF dns_stop, saying, quietly, verbosef
<1>24. CASE waitpid
  BY <1>24 DEF waitpid, saying, verbosef
<1>25. CASE shut_down
  BY <1>25 DEF shut_down, saying, verbosef, pidfile_unlink
<1>26. CASE main_return
  BY <1>26 DEF main_return, ends
<1>27. CASE child_privdrop
  BY <1>27 DEF child_privdrop, saying, verbosef
<1>28. CASE child_close
  BY <1>28 DEF child_close, quietly
<1>29. CASE child_finish
  BY <1>29 DEF child_finish, saying, verbosef
<1>30. CASE child_loop
  BY <1>30 DEF child_loop, saying, verbosef
<1>31. CASE child_exit
  BY <1>31 DEF child_exit, ends
<1>32. CASE child_sigint
  BY <1>32 DEF child_sigint, killed, ends
<1>33. CASE Stopped \/ UNCHANGED vars
  BY <1>33 DEF Stopped, vars
<1> QED BY <1>1, <1>2, <1>3, <1>4, <1>5, <1>6, <1>7, <1>8, <1>9, <1>10, <1>11,
          <1>12, <1>13, <1>14, <1>15, <1>16, <1>17, <1>18, <1>19, <1>20, <1>21,
          <1>22, <1>23, <1>24, <1>25, <1>26, <1>27, <1>28, <1>29, <1>30, <1>31,
          <1>32, <1>33 DEF Next, First, Starter, Main, Child

(* Only err() takes the file away from main; who made it unlinks it.     *)
LEMMA FileStep == ASSUME TypeOK, Stages, FileInv, [Next]_vars PROVE FileInv'
<1> USE DEF TypeOK, Stages, FileInv, Killed, ToUnlink, Proc, Gone, Alive, Early,
            Late, at, Fallible, Options, control, shared, history
<1>1. ASSUME NEW p \in Proc, lock(p) PROVE FileInv'
  BY <1>1 DEF lock
<1>2. ASSUME NEW p \in Proc, unlock(p) PROVE FileInv'
  BY <1>2 DEF unlock
<1>3. ASSUME NEW p \in Proc, becomes_zombie(p) PROVE FileInv'
  BY <1>3 DEF becomes_zombie
<1>4. ASSUME NEW p \in Proc, err(p) PROVE FileInv'
  BY <1>4 DEF err, errs, ends, pidfile_unlink
<1>5. ASSUME NEW p \in Proc, kill(p) PROVE FileInv'
  BY <1>5 DEF kill, killed, ends, sig_shutdown
<1>6. ASSUME NEW p \in Proc, starting_up(p) PROVE FileInv'
  BY <1>6 DEF starting_up, saying, verbosef
<1>7. ASSUME NEW p \in Proc, pidfile_create(p) PROVE FileInv'
  BY <1>7 DEF pidfile_create, AfterPidfile, saying, quietly, verbosef, errs,
              ends, pidfile_unlink
<1>8. CASE daemonize_start
  BY <1>8 DEF daemonize_start, forks, verbosef
<1>9. CASE starter_close
  BY <1>9 DEF starter_close, quietly
<1>10. CASE starter_read
  BY <1>10 DEF starter_read, saying, verbosef
<1>11. CASE starter_waitpid
  BY <1>11 DEF starter_waitpid, saying, verbosef
<1>12. CASE starter_exit
  BY <1>12 DEF starter_exit, ends, Status
<1>13. CASE pidfile_write_close
  BY <1>13 DEF pidfile_write_close, quietly
<1>14. CASE dns_init
  BY <1>14 DEF dns_init, forks, quietly, verbosef
<1>15. CASE cap_start
  BY <1>15 DEF cap_start, prepare, saying, verbosef
<1>16. CASE http_listen
  BY <1>16 DEF http_listen, prepare, saying, verbosef
<1>17. CASE privdrop
  BY <1>17 DEF privdrop, prepare, saying, verbosef
<1>18. CASE db_import
  BY <1>18 DEF db_import, prepare, saying, verbosef
<1>19. CASE signal_handlers
  BY <1>19 DEF signal_handlers, saying, verbosef
<1>20. CASE daemonize_finish
  BY <1>20 DEF daemonize_finish, quietly
<1>21. CASE main_loop
  BY <1>21 DEF main_loop, saying, verbosef
<1>22. CASE shutting_down
  BY <1>22 DEF shutting_down, saying, verbosef
<1>23. CASE dns_stop
  BY <1>23 DEF dns_stop, saying, quietly, verbosef
<1>24. CASE waitpid
  BY <1>24 DEF waitpid, saying, verbosef
<1>25. CASE shut_down
  BY <1>25 DEF shut_down, saying, verbosef, pidfile_unlink
<1>26. CASE main_return
  BY <1>26 DEF main_return, ends
<1>27. CASE child_privdrop
  BY <1>27 DEF child_privdrop, saying, verbosef
<1>28. CASE child_close
  BY <1>28 DEF child_close, quietly
<1>29. CASE child_finish
  BY <1>29 DEF child_finish, saying, verbosef
<1>30. CASE child_loop
  BY <1>30 DEF child_loop, saying, verbosef
<1>31. CASE child_exit
  BY <1>31 DEF child_exit, ends
<1>32. CASE child_sigint
  BY <1>32 DEF child_sigint, killed, ends
<1>33. CASE Stopped \/ UNCHANGED vars
  BY <1>33 DEF Stopped, vars
<1> QED BY <1>1, <1>2, <1>3, <1>4, <1>5, <1>6, <1>7, <1>8, <1>9, <1>10, <1>11,
          <1>12, <1>13, <1>14, <1>15, <1>16, <1>17, <1>18, <1>19, <1>20, <1>21,
          <1>22, <1>23, <1>24, <1>25, <1>26, <1>27, <1>28, <1>29, <1>30, <1>31,
          <1>32, <1>33 DEF Next, First, Starter, Main, Child

(* The starter waits for the lifeline, and main holds on to that.        *)
LEMMA ReportStep == ASSUME TypeOK, Stages, ReportInv, [Next]_vars PROVE ReportInv'
<1> USE DEF TypeOK, Stages, ReportInv, Reported, Proc, Gone, Alive, Early, Late,
            at, Fallible, Options, control, shared, history
<1>1. ASSUME NEW p \in Proc, lock(p) PROVE ReportInv'
  BY <1>1 DEF lock
<1>2. ASSUME NEW p \in Proc, unlock(p) PROVE ReportInv'
  BY <1>2 DEF unlock
<1>3. ASSUME NEW p \in Proc, becomes_zombie(p) PROVE ReportInv'
  BY <1>3 DEF becomes_zombie
<1>4. ASSUME NEW p \in Proc, err(p) PROVE ReportInv'
  BY <1>4 DEF err, errs, ends, pidfile_unlink
<1>5. ASSUME NEW p \in Proc, kill(p) PROVE ReportInv'
  BY <1>5 DEF kill, killed, ends, sig_shutdown
<1>6. ASSUME NEW p \in Proc, starting_up(p) PROVE ReportInv'
  BY <1>6 DEF starting_up, saying, verbosef
<1>7. ASSUME NEW p \in Proc, pidfile_create(p) PROVE ReportInv'
  BY <1>7 DEF pidfile_create, AfterPidfile, saying, quietly, verbosef, errs,
              ends, pidfile_unlink
<1>8. CASE daemonize_start
  BY <1>8 DEF daemonize_start, forks, verbosef
<1>9. CASE starter_close
  BY <1>9 DEF starter_close, quietly
<1>10. CASE starter_read
  BY <1>10 DEF starter_read, saying, verbosef
<1>11. CASE starter_waitpid
  BY <1>11 DEF starter_waitpid, saying, verbosef
<1>12. CASE starter_exit
  BY <1>12 DEF starter_exit, ends, Status
<1>13. CASE pidfile_write_close
  BY <1>13 DEF pidfile_write_close, quietly
<1>14. CASE dns_init
  BY <1>14 DEF dns_init, forks, quietly, verbosef
<1>15. CASE cap_start
  BY <1>15 DEF cap_start, prepare, saying, verbosef
<1>16. CASE http_listen
  BY <1>16 DEF http_listen, prepare, saying, verbosef
<1>17. CASE privdrop
  BY <1>17 DEF privdrop, prepare, saying, verbosef
<1>18. CASE db_import
  BY <1>18 DEF db_import, prepare, saying, verbosef
<1>19. CASE signal_handlers
  BY <1>19 DEF signal_handlers, saying, verbosef
<1>20. CASE daemonize_finish
  BY <1>20 DEF daemonize_finish, quietly
<1>21. CASE main_loop
  BY <1>21 DEF main_loop, saying, verbosef
<1>22. CASE shutting_down
  BY <1>22 DEF shutting_down, saying, verbosef
<1>23. CASE dns_stop
  BY <1>23 DEF dns_stop, saying, quietly, verbosef
<1>24. CASE waitpid
  BY <1>24 DEF waitpid, saying, verbosef
<1>25. CASE shut_down
  BY <1>25 DEF shut_down, saying, verbosef, pidfile_unlink
<1>26. CASE main_return
  BY <1>26 DEF main_return, ends
<1>27. CASE child_privdrop
  BY <1>27 DEF child_privdrop, saying, verbosef
<1>28. CASE child_close
  BY <1>28 DEF child_close, quietly
<1>29. CASE child_finish
  BY <1>29 DEF child_finish, saying, verbosef
<1>30. CASE child_loop
  BY <1>30 DEF child_loop, saying, verbosef
<1>31. CASE child_exit
  BY <1>31 DEF child_exit, ends
<1>32. CASE child_sigint
  BY <1>32 DEF child_sigint, killed, ends
<1>33. CASE Stopped \/ UNCHANGED vars
  BY <1>33 DEF Stopped, vars
<1> QED BY <1>1, <1>2, <1>3, <1>4, <1>5, <1>6, <1>7, <1>8, <1>9, <1>10, <1>11,
          <1>12, <1>13, <1>14, <1>15, <1>16, <1>17, <1>18, <1>19, <1>20, <1>21,
          <1>22, <1>23, <1>24, <1>25, <1>26, <1>27, <1>28, <1>29, <1>30, <1>31,
          <1>32, <1>33 DEF Next, First, Starter, Main, Child

(* Every statement of each process, each death and each signal keeps it. *)
LEMMA StepInv == IInv /\ [Next]_vars => IInv'
BY TypeStep, StageStep, ByteStep, FileStep, ReportStep DEF IInv

(* In every reachable state.                                             *)
THEOREM ProcessesInv == Spec => []IInv
BY InitInv, StepInv, PTL DEF Spec

----------------------------------------------------------------------------
(* At most one process prints: the sizes in MessagesApart.               *)
LEMMA ByteIsOne == TypeOK /\ ByteInv => MessagesApart
<1> SUFFICES ASSUME TypeOK, ByteInv PROVE MessagesApart
  OBVIOUS
<1> DEFINE printing == {p \in Proc : msg[p] = "prints"}
<1>1. CASE printing = {}
  <2>1. Cardinality(printing) = 0
    BY <1>1, FS_EmptySet
  <2>2. lockpipe \in {0, 1} /\ \A p \in Proc : msg[p] # "prints"
    BY <1>1 DEF ByteInv
  <2>3. (\E p \in Proc : msg[p] # "no") /\ ~lost => lockpipe = 1
    BY <2>2 DEF ByteInv
  <2> HIDE DEF printing
  <2>4. /\ lockpipe + Cardinality(printing) <= 1
        /\ (\E p \in Proc : msg[p] # "no") /\ ~lost =>
             lockpipe + Cardinality(printing) = 1
    BY <2>1, <2>2, <2>3
  <2> QED BY <2>4 DEF MessagesApart, printing
<1>2. ASSUME NEW p \in printing PROVE MessagesApart
  <2>1. printing = {p} /\ lockpipe = 0
    BY <1>2 DEF ByteInv
  <2>2. Cardinality(printing) = 1
    BY <2>1, FS_Singleton
  <2> HIDE DEF printing
  <2>3. lockpipe + Cardinality(printing) = 1
    BY <2>1, <2>2
  <2> QED BY <2>3 DEF MessagesApart, printing
<1> QED BY <1>1, <1>2

(* Messages of different processes do not mix, and the byte is lost only *)
(* with a process that was killed while it printed (verbosef).           *)
THEOREM ProcessesMessagesApart == Spec => []MessagesApart
<1>1. IInv => MessagesApart
  BY ByteIsOne DEF IInv
<1> QED BY <1>1, ProcessesInv, PTL

(* The pid file names main while its loop runs, if nobody called err(),  *)
(* and is unlinked by whoever created it, unless killed                  *)
(* (pidfile_unlink).                                                     *)
THEOREM ProcessesPidfileIsRight == Spec => []PidfileIsRight
<1>1. IInv => PidfileIsRight
  <2> SUFFICES ASSUME IInv PROVE PidfileIsRight
    OBVIOUS
  <2>1. opt.pidfile /\ pc["main"] = "loop" /\ erred = {} => file = "main"
    BY DEF IInv, FileInv, Early, Late
  <2>2. (\A p \in Proc : ~Alive(p)) /\ (\A p \in Proc : code[p] # "killed") =>
          file \in {"absent", "other"}
    BY DEF IInv, TypeOK, FileInv, Killed, ToUnlink, Alive, Gone, Proc
  <2> QED BY <2>1, <2>2 DEF PidfileIsRight
<1> QED BY <1>1, ProcessesInv, PTL

(* The starter reports what became of main's preparations                *)
(* (daemonize_start, daemonize_finish).                                  *)
THEOREM ProcessesReportIsRight == Spec => []ReportIsRight
<1>1. IInv => ReportIsRight
  BY DEF IInv, TypeOK, ReportInv, Reported, ReportIsRight, Late
<1> QED BY <1>1, ProcessesInv, PTL
============================================================================
