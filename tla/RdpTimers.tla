----------------------------- MODULE RdpTimers ------------------------------
(***************************************************************************)
(* The timer list of timer.c: a sequence of timers searched by ackno from  *)
(* its head.  A timer's time_sent is kept only as far as the programs look *)
(* at it: `sent' says that it is not the -1 that initiate_transfer gives   *)
(* to the timer of a packet not sent yet.  How long ago it was sent is not *)
(* kept, so a running timer may have expired whenever it is polled.        *)
(***************************************************************************)
EXTENDS Integers, Sequences

Timers == [pckt_ackno : Nat, sent : BOOLEAN, running : BOOLEAN, timedout : BOOLEAN]

NULL == 0   \* no index of a timer list

\* Fault: the timer of a packet not sent yet does not say so.
create_timer_Sent(pckt_ackno, sent) ==
  [pckt_ackno |-> pckt_ackno, sent |-> TRUE, running |-> FALSE, timedout |-> FALSE]

create_timer(pckt_ackno, sent) ==
  [pckt_ackno |-> pckt_ackno, sent |-> sent, running |-> FALSE, timedout |-> FALSE]

\* Fault: a timer is added at the head.
add_timer_First(timer_list, timer) == <<timer>> \o timer_list

add_timer(timer_list, timer) == Append(timer_list, timer)

\* The index of the first timer with this ackno, NULL if there is none.
find_timer(timer_list, ackno) ==
  LET found == {t \in DOMAIN timer_list : timer_list[t].pckt_ackno = ackno}
  IN  IF found = {} THEN NULL ELSE CHOOSE t \in found : \A u \in found : t <= u

\* stop_timer and start_timer exit the program when find_timer returns NULL:
\* their callers look first.  time_sent and timedout survive a stop.
stopped(timer)   == [timer EXCEPT !.running = FALSE]

\* Fault: a timer that was late stays marked.
restarted_Marked(timer) == [timer EXCEPT !.sent = TRUE, !.running = TRUE]

restarted(timer) == [timer EXCEPT !.sent = TRUE, !.running = TRUE, !.timedout = FALSE]

stop_timer(timer_list, ackno) ==
  [timer_list EXCEPT ![find_timer(timer_list, ackno)] = stopped(@)]

start_timer(timer_list, ackno) ==
  [timer_list EXCEPT ![find_timer(timer_list, ackno)] = restarted(@)]

\* Whether poll_timers may find timer t late: timed_out looks up the first
\* timer with t's ackno, not t itself, and wants it running.
timed_out(timer_list, t) ==
  timer_list[find_timer(timer_list, timer_list[t].pckt_ackno)].running
=============================================================================
