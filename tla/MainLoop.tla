------------------------------ MODULE MainLoop ------------------------------
(***************************************************************************)
(* The main loop of darkstat.c and the three signals it serves.  SIGUSR2   *)
(* asks for the database to be exported, SIGUSR1 for it to be exported and *)
(* then emptied, SIGTERM and SIGINT for a clean shutdown.  The handlers    *)
(* only set flags, between any two statements of the loop; the loop tests  *)
(* and clears the flags at its own pace while it accounts packets.         *)
(***************************************************************************)
EXTENDS Naturals

CONSTANTS Packet,      \* the packets that may be captured
          ExportSet,   \* was --export given?
          MaxSignals   \* bound on the SIGUSR1s and SIGUSR2s

ASSUME MainAssumption == ExportSet \in BOOLEAN /\ MaxSignals \in Nat

VARIABLES
  pc,               \* the next statement of main()
  running, reset_pending, export_pending,
  hosts, graph,     \* the packets hosts_db and graph_db account for
  signals,          \* SIGUSR1s and SIGUSR2s so far
  accounted,        \* history: every packet accounted since the start
  saved,            \* history: every packet in a successful export
  export_failed,    \* history: has an export failed?
  owed_export,      \* history: the packets accounted when the last SIGUSR1 or
                    \* SIGUSR2 came
  owed_reset        \* history: those in memory when the last SIGUSR1 came

flags   == <<running, reset_pending, export_pending>>
history == <<accounted, saved, export_failed>>
owed    == <<signals, owed_export, owed_reset>>
mainVars == <<pc, flags, hosts, graph, history, owed>>

MainInit ==
  /\ pc = "while"
  /\ running = TRUE /\ reset_pending = FALSE /\ export_pending = FALSE
  /\ hosts = {} /\ graph = {}
  /\ signals = 0
  /\ accounted = {} /\ saved = {} /\ export_failed = FALSE
  /\ owed_export = {} /\ owed_reset = {}

(***************************************************************************)
(* The signal handlers.  A signal that interrupts select() sends the loop  *)
(* back to its top (EINTR).                                                *)
(***************************************************************************)
interrupt == pc' = IF pc = "select" THEN "while" ELSE pc

sig_shutdown ==
  /\ running /\ pc # "exited"
  /\ running' = FALSE
  /\ interrupt
  /\ UNCHANGED <<reset_pending, export_pending, hosts, graph, history, owed>>

request ==
  /\ pc # "exited" /\ signals < MaxSignals
  /\ signals' = signals + 1
  /\ export_pending' = TRUE
  /\ owed_export' = accounted
  /\ interrupt
  /\ UNCHANGED <<running, hosts, graph, history>>

sig_reset ==
  /\ request
  /\ reset_pending' = TRUE
  /\ owed_reset' = hosts \cup graph

sig_export ==
  /\ request
  /\ UNCHANGED <<reset_pending, owed_reset>>

(***************************************************************************)
(* The loop, one action per step that a signal can come between.           *)
(***************************************************************************)
while ==
  /\ pc = "while"
  /\ pc' = IF running THEN "select" ELSE "shutdown"
  /\ UNCHANGED <<flags, hosts, graph, history, owed>>

select ==
  /\ pc = "select"
  /\ pc' = "export"
  /\ UNCHANGED <<flags, hosts, graph, history, owed>>

(* As if_export_pending, but leaving a reset to export for itself.         *)
if_export_pendingUnlessReset ==
  /\ pc = "export"
  /\ pc' = IF export_pending /\ ~reset_pending THEN "db_export" ELSE "reset"
  /\ UNCHANGED <<flags, hosts, graph, history, owed>>

if_export_pending ==
  /\ pc = "export"
  /\ pc' = IF export_pending THEN "db_export" ELSE "reset"
  /\ UNCHANGED <<flags, hosts, graph, history, owed>>

(* db_export, which only warns when it fails.                              *)
db_export ==
  IF ExportSet
  THEN \/ saved' = saved \cup (hosts \cap graph) /\ UNCHANGED export_failed
       \/ export_failed' = TRUE /\ UNCHANGED saved
  ELSE UNCHANGED <<saved, export_failed>>

export ==
  /\ pc = "db_export"
  /\ db_export
  /\ pc' = "exported"
  /\ UNCHANGED <<flags, hosts, graph, accounted, owed>>

clear_export ==
  /\ pc = "exported"
  /\ export_pending' = FALSE
  /\ pc' = "reset"
  /\ UNCHANGED <<running, reset_pending, hosts, graph, history, owed>>

if_reset_pending ==
  /\ pc = "reset"
  /\ pc' = IF reset_pending THEN "export before reset" ELSE "poll"
  /\ UNCHANGED <<flags, hosts, graph, history, owed>>

(* As export_before_reset, but without the second look at export_pending.  *)
reset_anyway ==
  /\ pc = "export before reset"
  /\ pc' = "hosts_db_reset"
  /\ UNCHANGED <<flags, hosts, graph, history, owed>>

export_before_reset ==
  /\ pc = "export before reset"
  /\ pc' = IF export_pending THEN "while" ELSE "hosts_db_reset"
  /\ UNCHANGED <<flags, hosts, graph, history, owed>>

hosts_db_reset ==
  /\ pc = "hosts_db_reset"
  /\ hosts' = {}
  /\ pc' = "graph_reset"
  /\ UNCHANGED <<flags, graph, history, owed>>

(* As graph_reset, but the graphs survive.                                 *)
graph_kept ==
  /\ pc = "graph_reset"
  /\ pc' = "clear_reset"
  /\ UNCHANGED <<flags, hosts, graph, history, owed>>

graph_reset ==
  /\ pc = "graph_reset"
  /\ graph' = {}
  /\ pc' = "clear_reset"
  /\ UNCHANGED <<flags, hosts, history, owed>>

clear_reset ==
  /\ pc = "clear_reset"
  /\ reset_pending' = FALSE
  /\ pc' = "poll"
  /\ UNCHANGED <<running, export_pending, hosts, graph, history, owed>>

account(p) ==
  /\ p \notin accounted
  /\ accounted' = accounted \cup {p}
  /\ hosts' = hosts \cup {p}
  /\ graph' = graph \cup {p}

(* As cap_poll, but the flag is cleared where the turn of the loop ends.   *)
cap_pollClears(cap_ret) ==
  /\ pc = "poll"
  /\ \/ \E p \in Packet : account(p)
     \/ UNCHANGED <<hosts, graph, accounted>>
  /\ running' = (running /\ cap_ret)
  /\ export_pending' = FALSE
  /\ pc' = "while"
  /\ UNCHANGED <<reset_pending, saved, export_failed, owed>>

(* As cap_poll, but running is set to what the capture returned.           *)
cap_pollSetsRunning(cap_ret) ==
  /\ pc = "poll"
  /\ \/ \E p \in Packet : account(p)
     \/ UNCHANGED <<hosts, graph, accounted>>
  /\ running' = cap_ret
  /\ pc' = "while"
  /\ UNCHANGED <<reset_pending, export_pending, saved, export_failed, owed>>

(* graph_rotate, cap_poll, dns_poll, http_poll: packets are accounted; the *)
(* loop ends if the capture failed.                                        *)
cap_poll(cap_ret) ==
  /\ pc = "poll"
  /\ \/ \E p \in Packet : account(p)
     \/ UNCHANGED <<hosts, graph, accounted>>
  /\ running' = (running /\ cap_ret)
  /\ pc' = "while"
  /\ UNCHANGED <<reset_pending, export_pending, saved, export_failed, owed>>

(* As shutdown, but exporting only what a signal asked for.                *)
shutdownOnlyPending ==
  /\ pc = "shutdown"
  /\ IF export_pending THEN db_export ELSE UNCHANGED <<saved, export_failed>>
  /\ pc' = "exited"
  /\ UNCHANGED <<flags, hosts, graph, accounted, owed>>

(* http_stop, cap_stop, dns_stop, then a last export whether or not one is *)
(* pending; the databases are freed.                                       *)
shutdown ==
  /\ pc = "shutdown"
  /\ db_export
  /\ pc' = "exited"
  /\ UNCHANGED <<flags, hosts, graph, accounted, owed>>

MainTerminated == pc = "exited" /\ UNCHANGED mainVars

Main ==
  \/ while \/ select \/ if_export_pending \/ export \/ clear_export
  \/ if_reset_pending \/ export_before_reset \/ hosts_db_reset \/ graph_reset
  \/ clear_reset \/ (\E cap_ret \in BOOLEAN : cap_poll(cap_ret)) \/ shutdown

MainNext ==
  \/ while \/ select \/ if_export_pending \/ export \/ clear_export
  \/ if_reset_pending \/ export_before_reset \/ hosts_db_reset \/ graph_reset
  \/ clear_reset \/ (\E cap_ret \in BOOLEAN : cap_poll(cap_ret)) \/ shutdown
  \/ sig_shutdown \/ sig_reset \/ sig_export
  \/ MainTerminated

MainSpec == MainInit /\ [][MainNext]_mainVars

(* select() has a timeout while an interface is captured from on Linux, so *)
(* the loop goes on even when nothing happens.                             *)
MainFairSpec == MainSpec /\ WF_mainVars(Main)

----------------------------------------------------------------------------
Pcs == {"while", "select", "export", "db_export", "exported", "reset",
        "export before reset", "hosts_db_reset", "graph_reset",
        "clear_reset", "poll", "shutdown", "exited"}

TypeOK ==
  /\ pc \in Pcs
  /\ running \in BOOLEAN
  /\ reset_pending \in BOOLEAN /\ export_pending \in BOOLEAN
  /\ hosts \subseteq accounted /\ graph \subseteq accounted
  /\ accounted \subseteq Packet /\ saved \subseteq accounted
  /\ signals \in Nat
  /\ export_failed \in BOOLEAN
  /\ owed_export \subseteq accounted /\ owed_reset \subseteq accounted

Exports == ExportSet /\ ~export_failed

(* A reset discards only what was saved: wherever a SIGUSR1 falls between  *)
(* the tests of export_pending and reset_pending, a packet that is no      *)
(* longer in memory is in an export, as long as exports succeed.           *)
DiscardedIsSaved ==
  Exports => accounted \ (hosts \cap graph) \subseteq saved

(* Once export_pending is clear, everything accounted before the last      *)
(* SIGUSR1 or SIGUSR2 has been saved: a request that comes during an       *)
(* export is not lost when the loop clears the flag behind it.             *)
RequestIsServed ==
  Exports /\ ~export_pending => owed_export \subseteq saved

(* Once reset_pending is clear, nothing that was in memory when the last   *)
(* SIGUSR1 came is still in either database, even if the signal came in    *)
(* the middle of a reset.                                                  *)
ResetIsServed ==
  ~reset_pending => owed_reset \cap (hosts \cup graph) = {}

(* The hosts table and the graphs are about the same packets, but for the  *)
(* middle of a reset.                                                      *)
InStep == pc # "graph_reset" => hosts = graph

(* After a clean shutdown every packet ever accounted is in some export,   *)
(* whatever was pending when SIGTERM came or the interface went down.      *)
NothingLostAtExit == pc = "exited" /\ Exports => accounted \subseteq saved

(* What else is true between a request and the end of serving it.          *)
InBetween ==
  /\ reset_pending /\ ~export_pending =>
       pc \in {"reset", "export before reset", "hosts_db_reset",
               "graph_reset", "clear_reset"}
  /\ Exports /\ reset_pending /\ ~export_pending => hosts \cup graph \subseteq saved
  /\ Exports /\ pc \in {"exported", "hosts_db_reset", "graph_reset"} =>
       hosts \cup graph \subseteq saved
  /\ pc = "export before reset" => reset_pending
  /\ pc \in {"graph_reset", "clear_reset"} => hosts = {}
  /\ pc = "clear_reset" => graph = {}

Inv == /\ TypeOK /\ InBetween /\ DiscardedIsSaved /\ RequestIsServed
       /\ ResetIsServed /\ InStep /\ NothingLostAtExit

(* A shutdown is never held up by pending requests.                        *)
ShutdownEnds == ~running ~> pc = "exited"

(* Pending requests are served or the program exits; in particular "export *)
(* before reset" does not send the loop round for ever.                    *)
RequestsEnd ==
  /\ export_pending ~> (~export_pending \/ pc = "exited")
  /\ reset_pending ~> (~reset_pending \/ pc = "exited")
=============================================================================
