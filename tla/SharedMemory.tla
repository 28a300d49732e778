---------------------------- MODULE SharedMemory ----------------------------
(***************************************************************************)
(* What the requesters of the SDRAM may assume of memory_controller's      *)
(* memory: a plain array, in which every request takes effect exactly once *)
(* and at one instant between being raised and being answered, and a read  *)
(* returns what the array holds at that instant.                           *)
(***************************************************************************)
EXTENDS Integers

CONSTANTS Ports, Addrs, Words, Lanes

VARIABLES
  array,               \* the memory
  request,             \* request[i]: the access port i shows, or NoRequest
  done,                \* done[i]: it has taken effect
  answer               \* what this clock's ready carries, or NoAnswer

vars == <<array, request, done, answer>>

Accesses  == [kind : {"rd", "wr"}, addr : Addrs, be : SUBSET Lanes, data : Words]
NoRequest == [kind |-> "none"]
NoAnswer  == [kind |-> "none"]

written(a) ==
  [array EXCEPT ![a.addr] =
     [l \in Lanes |-> IF l \in a.be THEN a.data[l] ELSE @[l]]]

Init ==
  /\ array \in [Addrs -> Words]
  /\ request = [i \in Ports |-> NoRequest]
  /\ done    = [i \in Ports |-> FALSE]
  /\ answer  = NoAnswer

(* The access of port i takes effect; its answer is visible next clock.    *)
Perform(i) ==
  LET a == request[i] IN
  /\ a # NoRequest /\ ~done[i]
  /\ array' = IF a.kind = "wr" THEN written(a) ELSE array
  /\ answer' = [kind |-> a.kind, port |-> i,
                data |-> IF a.kind = "rd" THEN array[a.addr] ELSE a.data]
  /\ done' = [j \in Ports |-> request'[j] # NoRequest /\ (done[j] \/ j = i)]

PerformNone ==
  /\ UNCHANGED array
  /\ answer' = NoAnswer
  /\ done' = [j \in Ports |-> request'[j] # NoRequest /\ done[j]]

(* A port keeps its request until it has been performed, then drops it.    *)
PortsMove ==
  /\ request' \in [Ports -> Accesses \cup {NoRequest}]
  /\ \A j \in Ports :
       \/ request'[j] = request[j]
       \/ request[j] = NoRequest
       \/ done[j] /\ request'[j] = NoRequest

Next == PortsMove /\ (PerformNone \/ \E i \in Ports : Perform(i))

Spec == Init /\ [][Next]_vars
=============================================================================
