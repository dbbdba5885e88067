----------------------------- MODULE MCLinuxRing -----------------------------
(* Small instances of LinuxRing for TLC. *)
EXTENDS LinuxRing

MCFilters == {{"a"}, {"b"}}

NoFilters == {}

Blocking == {}

BothModes == BOOLEAN

OneOrAll == {0, 1}

UpToTwo == {-1, 1, 2}

=============================================================================
