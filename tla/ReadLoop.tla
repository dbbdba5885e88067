------------------------------ MODULE ReadLoop ------------------------------
(***************************************************************************)
(* What a live capture source promises to pcap_dispatch and pcap_loop: the *)
(* contract of the read_op of a pcap_t, whatever the platform behind it.   *)
(*                                                                         *)
(* A call hands over the packets that pass the filter, each one once and   *)
(* in the order of arrival, never more than it was asked for.  It returns  *)
(* how many it handed over, or an error, or PCAP_ERROR_BREAK.  The last    *)
(* answers a request to break, happens before any packet is handed over,   *)
(* and clears the request; nothing else clears it, and after a request at  *)
(* most one more packet is handed over.                                    *)
(*                                                                         *)
(* Not every platform keeps all of that.  lax is the set of the clauses    *)
(* the source at hand does not keep; module Sources says which and why.    *)
(***************************************************************************)
EXTENDS Integers, Sequences

CONSTANT Packets    \* numbers in order of arrival; 0 is not a packet

VARIABLES
    lax,        \* the clauses that do not bind this source
    match,      \* the packets that pass the filter
    calling,    \* a call is in progress
    cnt,        \* how many packets it may hand over; 0 is no limit
    done,       \* how many it has handed over
    handed,     \* every packet handed over, in order
    brk,        \* the request to break: p->break_loop
    over,       \* packets handed over since the request
    ret         \* what the last call returned

rvars == <<lax, match, calling, cnt, done, handed, brk, over, ret>>

PCAP_ERROR == -1
PCAP_ERROR_BREAK == -2

Clauses == {"drops", "again", "count", "number", "late", "slow"}

Binds(clause) == clause \notin lax

Init ==
    /\ lax \subseteq Clauses
    /\ match \subseteq Packets
    /\ ~calling /\ cnt = 0 /\ done = 0
    /\ handed = <<>> /\ brk = FALSE /\ over = 0 /\ ret = 0

WasHanded(q) == \E i \in DOMAIN handed : handed[i] = q

Call ==
    /\ ~calling
    /\ calling' = TRUE /\ cnt' \in Nat /\ done' = 0
    /\ UNCHANGED <<lax, match, handed, brk, over, ret>>

HandOver(p) ==
    /\ calling
    /\ Binds("count") => cnt = 0 \/ done < cnt
    /\ Binds("again") => p \in match /\ \A i \in DOMAIN handed : handed[i] < p
    /\ Binds("drops") => \A q \in match : q >= p \/ q = 0 \/ WasHanded(q)
    /\ Binds("slow") => over = 0
    /\ handed' = Append(handed, p)
    /\ done' = done + 1
    /\ over' = IF brk THEN over + 1 ELSE over
    /\ UNCHANGED <<lax, match, calling, cnt, brk, ret>>

BreakLoop ==
    /\ ~brk /\ brk' = TRUE
    /\ UNCHANGED <<lax, match, calling, cnt, done, handed, over, ret>>

ReturnCount ==
    /\ calling
    /\ calling' = FALSE /\ ret' \in Nat
    /\ Binds("number") => ret' = done
    /\ UNCHANGED <<lax, match, cnt, done, handed, brk, over>>

ReturnError ==
    /\ calling
    /\ calling' = FALSE /\ ret' = PCAP_ERROR
    /\ UNCHANGED <<lax, match, cnt, done, handed, brk, over>>

ReturnBreak ==
    /\ calling /\ brk
    /\ Binds("late") => done = 0
    /\ calling' = FALSE /\ ret' = PCAP_ERROR_BREAK
    /\ brk' = FALSE /\ over' = 0
    /\ UNCHANGED <<lax, match, cnt, done, handed>>

Next ==
    \/ Call \/ BreakLoop
    \/ \E p \in Packets : HandOver(p)
    \/ ReturnCount \/ ReturnError \/ ReturnBreak

Spec == Init /\ [][Next]_rvars
=============================================================================
