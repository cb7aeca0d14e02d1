------------------------------- MODULE RteTimer -------------------------------
(***************************************************************************)
(* The timer library of DPDK (rte_timer.c).  Every lcore keeps a list of   *)
(* its pending timers under a spinlock and runs the expired ones from      *)
(* rte_timer_manage; any lcore may reset or stop any timer at any time.    *)
(* A timer's status word, changed by compare-and-set, says who may touch   *)
(* it; the locks say who may touch a list; the two are taken separately.   *)
(*                                                                         *)
(* The skip list is its level 0, a sequence ordered by expiry.  A loop     *)
(* that reads a status and compare-and-sets it is one step: only the read  *)
(* that the compare-and-set confirms, or that ends the call, has an        *)
(* effect.  rte_timer_reset_sync and rte_timer_stop_sync repeat the call   *)
(* until it succeeds, which is a user making the same call again.          *)
(***************************************************************************)
EXTENDS Integers, Sequences, SequencesExt

CONSTANTS
  Lcores, Timers,
  Ticks,      \* the delays a user asks for
  MaxTime,    \* bound on the clock
  Callers,    \* the lcores that reset and stop timers outside callbacks
  CbCalls,    \* bound on the timer calls one callback makes
  NONE

(* The parameters and locals of a reset or stop in progress. *)
Ops ==
  [pc : {"config", "del", "add", "pending", "stop"}, kind : {"reset", "stop"},
   tim : Timers, expire : Nat, period : Nat, dest : Lcores \union {NONE},
   prev : Lcores \union {NONE}, locked : BOOLEAN]

ASSUME TimerAssumption ==
  /\ Ticks \subseteq Nat /\ MaxTime \in Nat /\ CbCalls \in Nat
  /\ Callers \subseteq Lcores
  /\ NONE \notin Lcores \union Timers /\ NONE \notin Ops

VARIABLES
  now,          \* rte_get_timer_cycles
  status,       \* per timer: state and owner
  expire, period,
  list,         \* per lcore: its pending timers, by expiry
  head_expire,  \* per lcore: pending_head.expire, the first one's expiry
  lock,         \* per lcore: who holds its list_lock
  updated, running_tim,
  mpc,          \* per lcore: where it is in rte_timer_manage
  cur_time,     \* per lcore: the time manage read
  scan,         \* per lcore: expired timers still to be marked running
  run,          \* per lcore: timers whose callback is still to run
  cb_left,      \* per lcore: calls the running callback may still make
  op            \* per lcore: its reset or stop in progress

statusVars  == <<status, expire, period>>
listVars   == <<list, head_expire, lock>>
manageVars == <<mpc, cur_time, scan, run, running_tim, cb_left>>
timerVars == <<now, statusVars, listVars, updated, manageVars, op>>

Stopped    == [state |-> "stop", owner |-> NONE]
Pending(l) == [state |-> "pending", owner |-> l]
Running(l) == [state |-> "running", owner |-> l]
Config(l)  == [state |-> "config", owner |-> l]

(* rte_timer_subsystem_init, and rte_timer_init of every timer. *)
TimerInit ==
  /\ now = 1
  /\ status = [t \in Timers |-> Stopped]
  /\ expire = [t \in Timers |-> 0]
  /\ period = [t \in Timers |-> 0]
  /\ list = [l \in Lcores |-> << >>]
  /\ head_expire = [l \in Lcores |-> 0]
  /\ lock = [l \in Lcores |-> NONE]
  /\ updated = [l \in Lcores |-> FALSE]
  /\ running_tim = [l \in Lcores |-> NONE]
  /\ mpc = [l \in Lcores |-> "idle"]
  /\ cur_time = [l \in Lcores |-> 0]
  /\ scan = [l \in Lcores |-> << >>]
  /\ run = [l \in Lcores |-> << >>]
  /\ cb_left = [l \in Lcores |-> 0]
  /\ op = [l \in Lcores |-> NONE]

Tick ==
  /\ now < MaxTime
  /\ now' = now + 1
  /\ UNCHANGED <<statusVars, listVars, updated, manageVars, op>>

(***************************************************************************)
(* rte_timer_reset and rte_timer_stop.                                     *)
(***************************************************************************)

(* A user calls from its main loop, or from inside a callback. *)
MayCallTimer(l) ==
  /\ op[l] = NONE
  /\ \/ mpc[l] = "idle" /\ l \in Callers
     \/ mpc[l] = "callback" /\ cb_left[l] > 0

NewOp(kind, t, e, p, dest, locked) ==
  [pc |-> "config", kind |-> kind, tim |-> t, expire |-> e, period |-> p,
   dest |-> dest, prev |-> NONE, locked |-> locked]

CallsTimer(l, o) ==
  /\ MayCallTimer(l)
  /\ op' = [op EXCEPT ![l] = o]
  /\ cb_left' = [cb_left EXCEPT ![l] = IF @ > 0 THEN @ - 1 ELSE 0]
  /\ UNCHANGED <<now, statusVars, listVars, updated, mpc, cur_time, scan, run, running_tim>>

(* A periodical timer's period is its delay.  LCORE_ID_ANY is some lcore. *)
ResetBegin(l) ==
  \E t \in Timers, d \in Ticks, dest \in Lcores : \E p \in {0, d} :
    CallsTimer(l, NewOp("reset", t, now + d, p, dest, FALSE))

StopBegin(l) ==
  \E t \in Timers : CallsTimer(l, NewOp("stop", t, 0, 0, NONE, FALSE))

(* timer_set_config_state *)
MayConfig(l, t) ==
  /\ status[t].state # "config"
  /\ status[t].state = "running" => status[t].owner = l /\ running_tim[l] = t

ConfigRefused(l) ==
  /\ ~MayConfig(l, op[l].tim)
  /\ op' = [op EXCEPT ![l] = NONE]
  /\ UNCHANGED <<status, updated>>

AfterDel(l) == IF op[l].kind = "reset" THEN "add" ELSE "stop"

ConfigGrantedUnseen(l) ==
  LET t == op[l].tim IN
  /\ MayConfig(l, t)
  /\ status' = [status EXCEPT ![t] = Config(l)]
  /\ op' = [op EXCEPT ![l].prev = status[t].owner,
                      ![l].pc = IF status[t].state = "pending" THEN "del" ELSE AfterDel(l)]
  /\ UNCHANGED updated

ConfigGranted(l) ==
  LET t == op[l].tim IN
  /\ MayConfig(l, t)
  /\ status' = [status EXCEPT ![t] = Config(l)]
  /\ updated' = [updated EXCEPT ![l] = @ \/ status[t].state = "running"]
  /\ op' = [op EXCEPT ![l].prev = status[t].owner,
                      ![l].pc = IF status[t].state = "pending" THEN "del" ELSE AfterDel(l)]

SetConfigState(l) ==
  /\ op[l] # NONE /\ op[l].pc = "config"
  /\ ConfigRefused(l) \/ ConfigGranted(l)
  /\ UNCHANGED <<now, expire, period, listVars, manageVars>>

(* The lock of lcore o's list is not needed by a call from manage itself. *)
CanLock(l, o) == (op[l].locked /\ o = l) \/ lock[o] = NONE

First(s) == IF s = << >> THEN 0 ELSE expire[Head(s)]

(* timer_get_prev_entries: how many timers at the front of a list expire   *)
(* by time_val; the walk stops at the first that does not.                 *)
PrevEntries(s, time_val) ==
  CHOOSE p \in 0 .. Len(s) :
    /\ \A i \in 1 .. p : expire[s[i]] <= time_val
    /\ p < Len(s) => expire[s[p + 1]] > time_val

(* timer_del, within one critical section.  The timer need not be in the   *)
(* list any more.                                                          *)
DelUncached(l) ==
  LET o == op[l].prev
      t == op[l].tim
  IN
  /\ op[l] # NONE /\ op[l].pc = "del"
  /\ CanLock(l, o)
  /\ list' = [list EXCEPT ![o] = RemoveFirst(@, t)]
  /\ op' = [op EXCEPT ![l].pc = AfterDel(l)]
  /\ UNCHANGED <<now, statusVars, head_expire, lock, updated, manageVars>>

Del(l) ==
  LET o == op[l].prev
      t == op[l].tim
  IN
  /\ op[l] # NONE /\ op[l].pc = "del"
  /\ CanLock(l, o)
  /\ list' = [list EXCEPT ![o] = RemoveFirst(@, t)]
  /\ head_expire' = [head_expire EXCEPT ![o] =
       IF list[o] # << >> /\ Head(list[o]) = t THEN First(Tail(list[o])) ELSE @]
  /\ op' = [op EXCEPT ![l].pc = AfterDel(l)]
  /\ UNCHANGED <<now, statusVars, lock, updated, manageVars>>

(* timer_add puts a timer behind those that expire no later. *)
Insert(s, t, e) == InsertAt(s, PrevEntries(s, e) + 1, t)

(* __rte_timer_reset writes the timer, takes the destination's lock and    *)
(* links the timer ...                                                     *)
Add(l) ==
  LET t == op[l].tim
      e == op[l].expire
      d == op[l].dest
  IN
  /\ op[l] # NONE /\ op[l].pc = "add"
  /\ CanLock(l, d)
  /\ lock' = [lock EXCEPT ![d] = l]
  /\ expire' = [expire EXCEPT ![t] = e]
  /\ period' = [period EXCEPT ![t] = op[l].period]
  /\ list' = [list EXCEPT ![d] = Insert(@, t, e)]
  /\ op' = [op EXCEPT ![l].pc = "pending"]
  /\ UNCHANGED <<now, status, head_expire, updated, manageVars>>

(* ... saves the first expiry, marks the timer pending and only then       *)
(* unlocks.                                                                *)
SetPendingUnlocksFirst(l) ==
  LET d == op[l].dest IN
  /\ op[l] # NONE /\ op[l].pc = "pending"
  /\ head_expire' = [head_expire EXCEPT ![d] = First(list[d])]
  /\ \/ /\ lock[d] = l /\ ~op[l].locked
        /\ lock' = [lock EXCEPT ![d] = NONE]
        /\ UNCHANGED <<status, op>>
     \/ /\ lock[d] # l \/ op[l].locked
        /\ status' = [status EXCEPT ![op[l].tim] = Pending(d)]
        /\ op' = [op EXCEPT ![l] = NONE]
        /\ UNCHANGED lock
  /\ UNCHANGED <<now, expire, period, list, updated, manageVars>>

SetPending(l) ==
  LET d == op[l].dest IN
  /\ op[l] # NONE /\ op[l].pc = "pending"
  /\ head_expire' = [head_expire EXCEPT ![d] = First(list[d])]
  /\ status' = [status EXCEPT ![op[l].tim] = Pending(d)]
  /\ lock' = [lock EXCEPT ![d] = IF op[l].locked THEN @ ELSE NONE]
  /\ op' = [op EXCEPT ![l] = NONE]
  /\ UNCHANGED <<now, expire, period, list, updated, manageVars>>

(* The end of rte_timer_stop. *)
SetStopped(l) ==
  /\ op[l] # NONE /\ op[l].pc = "stop"
  /\ status' = [status EXCEPT ![op[l].tim] = Stopped]
  /\ op' = [op EXCEPT ![l] = NONE]
  /\ UNCHANGED <<now, expire, period, listVars, updated, manageVars>>

OpStep(l) ==
  SetConfigState(l) \/ Del(l) \/ Add(l) \/ SetPending(l) \/ SetStopped(l)

(***************************************************************************)
(* rte_timer_manage.                                                       *)
(***************************************************************************)

(* The quick check outside the lock; when it fails manage just returns. *)
ManageBegin(l) ==
  /\ mpc[l] = "idle" /\ op[l] = NONE
  /\ list[l] # << >>
  /\ head_expire[l] <= now
  /\ cur_time' = [cur_time EXCEPT ![l] = now]
  /\ mpc' = [mpc EXCEPT ![l] = "lock"]
  /\ UNCHANGED <<now, statusVars, listVars, updated, scan, run, running_tim, cb_left, op>>

(* Under the lock, the first timer is looked at again, and the expired     *)
(* ones are broken off the list.                                           *)
FirstExpired(l) == list[l] # << >> /\ expire[Head(list[l])] <= cur_time[l]

Break(l) ==
  LET s == list[l]
      p == PrevEntries(s, cur_time[l])
  IN
  /\ mpc[l] = "lock"
  /\ lock[l] = NONE
  /\ \/ /\ ~FirstExpired(l)
        /\ mpc' = [mpc EXCEPT ![l] = "idle"]
        /\ cur_time' = [cur_time EXCEPT ![l] = 0]
        /\ UNCHANGED <<list, lock, scan>>
     \/ /\ FirstExpired(l)
        /\ mpc' = [mpc EXCEPT ![l] = "scan"]
        /\ lock' = [lock EXCEPT ![l] = l]
        /\ scan' = [scan EXCEPT ![l] = SubSeq(s, 1, p)]
        /\ list' = [list EXCEPT ![l] = SubSeq(s, p + 1, Len(s))]
        /\ UNCHANGED cur_time
  /\ UNCHANGED <<now, statusVars, head_expire, updated, run, running_tim, cb_left, op>>

(* timer_set_running_state, of each of them in turn: one that another      *)
(* lcore is configuring is left to that lcore.                             *)
MarkRunningAll(l) ==
  LET t == Head(scan[l]) IN
  /\ mpc[l] = "scan" /\ scan[l] # << >>
  /\ scan' = [scan EXCEPT ![l] = Tail(@)]
  /\ status' = [status EXCEPT ![t] = Running(l)]
  /\ run' = [run EXCEPT ![l] = Append(@, t)]
  /\ UNCHANGED <<now, expire, period, listVars, updated, mpc, cur_time, running_tim, cb_left, op>>

MarkRunning(l) ==
  LET t == Head(scan[l]) IN
  /\ mpc[l] = "scan" /\ scan[l] # << >>
  /\ scan' = [scan EXCEPT ![l] = Tail(@)]
  /\ IF status[t].state = "pending"
       THEN /\ status' = [status EXCEPT ![t] = Running(l)]
            /\ run' = [run EXCEPT ![l] = Append(@, t)]
       ELSE UNCHANGED <<status, run>>
  /\ UNCHANGED <<now, expire, period, listVars, updated, mpc, cur_time, running_tim, cb_left, op>>

ScanEnd(l) ==
  /\ mpc[l] = "scan" /\ scan[l] = << >>
  /\ head_expire' = [head_expire EXCEPT ![l] = First(list[l])]
  /\ lock' = [lock EXCEPT ![l] = NONE]
  /\ mpc' = [mpc EXCEPT ![l] = "run"]
  /\ cur_time' = [cur_time EXCEPT ![l] = 0]
  /\ UNCHANGED <<now, statusVars, list, updated, scan, run, running_tim, cb_left, op>>

CallbackBegin(l) ==
  /\ mpc[l] = "run" /\ run[l] # << >>
  /\ updated' = [updated EXCEPT ![l] = FALSE]
  /\ running_tim' = [running_tim EXCEPT ![l] = Head(run[l])]
  /\ run' = [run EXCEPT ![l] = Tail(@)]
  /\ cb_left' = [cb_left EXCEPT ![l] = CbCalls]
  /\ mpc' = [mpc EXCEPT ![l] = "callback"]
  /\ UNCHANGED <<now, statusVars, listVars, cur_time, scan, op>>

(* The callback returns.  A timer it did not reset or stop itself is       *)
(* stopped, or marked pending again under the lock and then reset.         *)
CallbackEnd(l) ==
  LET t == running_tim[l] IN
  /\ mpc[l] = "callback" /\ op[l] = NONE
  /\ cb_left' = [cb_left EXCEPT ![l] = 0]
  /\ \/ /\ updated[l]
        /\ mpc' = [mpc EXCEPT ![l] = "run"]
        /\ UNCHANGED <<status, lock, op>>
     \/ /\ ~updated[l] /\ period[t] = 0
        /\ status' = [status EXCEPT ![t] = Stopped]
        /\ mpc' = [mpc EXCEPT ![l] = "run"]
        /\ UNCHANGED <<lock, op>>
     \/ /\ ~updated[l] /\ period[t] # 0
        /\ lock[l] = NONE
        /\ lock' = [lock EXCEPT ![l] = l]
        /\ status' = [status EXCEPT ![t] = Pending(l)]
        /\ op' = [op EXCEPT ![l] =
             NewOp("reset", t, expire[t] + period[t], period[t], l, TRUE)]
        /\ mpc' = [mpc EXCEPT ![l] = "rearm"]
  /\ UNCHANGED <<now, expire, period, list, head_expire, updated, cur_time, scan, run, running_tim>>

(* A reset that another lcore's call has forestalled is simply dropped. *)
RearmEnd(l) ==
  /\ mpc[l] = "rearm" /\ op[l] = NONE
  /\ lock' = [lock EXCEPT ![l] = NONE]
  /\ mpc' = [mpc EXCEPT ![l] = "run"]
  /\ UNCHANGED <<now, statusVars, list, head_expire, updated, cur_time, scan, run, running_tim, cb_left, op>>

ManageEnd(l) ==
  /\ mpc[l] = "run" /\ run[l] = << >>
  /\ running_tim' = [running_tim EXCEPT ![l] = NONE]
  /\ mpc' = [mpc EXCEPT ![l] = "idle"]
  /\ UNCHANGED <<now, statusVars, listVars, updated, cur_time, scan, run, cb_left, op>>

ManageStep(l) ==
  \/ Break(l)
  \/ MarkRunning(l)
  \/ ScanEnd(l)
  \/ CallbackBegin(l)
  \/ CallbackEnd(l)
  \/ RearmEnd(l)
  \/ ManageEnd(l)

LcoreStep(l) == OpStep(l) \/ ManageStep(l)

TimerNext ==
  \/ Tick
  \/ \E l \in Lcores : ResetBegin(l) \/ StopBegin(l) \/ ManageBegin(l) \/ LcoreStep(l)

(* "This function must be called periodically" (rte_timer.h:287): an lcore *)
(* comes back to rte_timer_manage.  A call or callback in progress goes    *)
(* on, and one that spins on a lock gets it if it is freed again and       *)
(* again.                                                                  *)
TimerFairness == \A l \in Lcores : SF_timerVars(LcoreStep(l)) /\ SF_timerVars(ManageBegin(l))

TimerSpec == TimerInit /\ [][TimerNext]_timerVars /\ TimerFairness

(***************************************************************************)
(* Properties.                                                             *)
(***************************************************************************)

(* Lcore o is about to take timer t out of lcore l's list. *)
Removing(t, l) ==
  \E o \in Lcores : op[o] # NONE /\ op[o].pc = "del" /\ op[o].tim = t /\ op[o].prev = l

(* The status word and the lists agree whenever a list's lock is free, and *)
(* a timer is never in two places: a pending timer is in its owner's list  *)
(* and nowhere else, a list holds only its owner's pending timers and      *)
(* those somebody is on the way to remove, and a timer waiting for its     *)
(* callback is running, owned by that lcore and in no list, so no callback *)
(* runs for a timer that was stopped and none is lost.                     *)
ListsMatchStatus ==
  /\ \A l \in Lcores :
       lock[l] = NONE =>
         \A t \in Timers :
           /\ status[t] = Pending(l) => t \in ToSet(list[l])
           /\ t \in ToSet(list[l]) =>
                status[t] = Pending(l) \/ (status[t].state = "config" /\ Removing(t, l))
  /\ \A l \in Lcores : \A t \in ToSet(run[l]) :
       status[t] = Running(l) /\ \A k \in Lcores : t \notin ToSet(list[k])
  /\ \A t \in Timers : \A k, l \in Lcores :
       k # l => ~(t \in ToSet(list[k]) /\ t \in ToSet(list[l]))

(* "If it succeeds, the timer is not referenced anymore by the timer       *)
(* library and the timer structure can be freed (even in the callback      *)
(* function)" (rte_timer.h:244): a stopped timer is in no list and waits   *)
(* for no callback, and an lcore still inside its callback will not touch  *)
(* it when the callback returns.                                           *)
StoppedUnreferenced ==
  \A t \in Timers :
    status[t] = Stopped =>
      \A l \in Lcores :
        /\ t \notin ToSet(list[l]) \union ToSet(scan[l]) \union ToSet(run[l])
        /\ mpc[l] = "callback" /\ running_tim[l] = t => updated[l]

(* The expiry the quick check reads is that of the first timer in the      *)
(* list, and no other one in the list is earlier, so the check outside the *)
(* lock never hides an expired timer.                                      *)
FirstExpiryCached ==
  \A l \in Lcores :
    lock[l] = NONE =>
      /\ head_expire[l] = First(list[l])
      /\ \A i, j \in DOMAIN list[l] :
           i < j => list[l][i] # list[l][j] /\ expire[list[l][i]] <= expire[list[l][j]]

(* A pending timer whose time has come is run, or is reset or stopped      *)
(* first: it never stays in the list for ever.                             *)
ExpiredRuns ==
  \A t \in Timers, l \in Lcores :
    status[t] = Pending(l) /\ expire[t] <= now ~> status[t] # Pending(l)

=============================================================================
