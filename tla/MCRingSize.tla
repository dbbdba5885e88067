----------------------------- MODULE MCRingSize -----------------------------
(* Small instances of RingSize for TLC. *)
EXTENDS RingSize

Of(buffers) ==
    {[immediate |-> i, v3 |-> v, ether |-> e, cooked |-> c, snapshot |-> s,
      mtu |-> m, offload |-> o, buffer_size |-> b] :
        i \in BOOLEAN, v \in BOOLEAN, e \in BOOLEAN, c \in BOOLEAN,
        s \in {1, 1514, 262144}, m \in {1500, 9000}, o \in BOOLEAN, b \in buffers}

\* The default, less than a frame, and sizes of a few blocks and of many frames.
Usual == {r \in Of({0, 1000, 300000, 1000000}) : ~(r.ether /\ r.cooked)}

\* Plenty, or so little that a retry, or giving up, is needed.
Plenty == {100000000, 900000, 300000, 3000}
=============================================================================
