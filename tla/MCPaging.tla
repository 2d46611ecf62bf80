------------------------------ MODULE MCPaging ------------------------------
(* Guests for module Paging, with tables of 2 entries and pages of 16      *)
(* bytes.  RAM holds pages 4 to 7: the root table, a page of data, a       *)
(* middle table and a leaf table.                                          *)
EXTENDS Paging

Pte(ppn, flags) == [rsv |-> FALSE, ppn |-> ppn, flags |-> flags]
Bad == [rsv |-> TRUE, ppn |-> 5, flags |-> {"V", "R", "W", "X", "U"}]

\* Virtual page 0 is the data page (user), page 1 the leaf table
\* (supervisor), pages 2 and 3 a superpage over the two upper tables.
BaseImage == [w \in RamWord |->
    CASE w = 64  -> Pte(6, {"V"})
      [] w = 96  -> Pte(7, {"V"})
      [] w = 104 -> Pte(6, {"V", "R", "X", "D"})
      [] w = 112 -> Pte(5, {"V", "R", "W", "U"})
      [] w = 120 -> Pte(7, {"V", "R", "W"})
      [] OTHER   -> Zero]

\* Variations of one entry: superpages aligned or not, a pointer too deep,
\* reserved bits and combinations, missing permissions, the high half.
Variations ==
    {<<64, Pte(4, {"V", "R", "W"})>>, <<64, Pte(6, {"V", "R"})>>, <<64, Bad>>,
     <<72, Pte(6, {"V"})>>, <<96, Pte(7, {"V", "X"})>>, <<96, Pte(6, {"V", "X", "U"})>>,
     <<96, Pte(4, {"V", "R"})>>, <<112, Pte(5, {"V", "W", "U"})>>,
     <<112, Pte(5, {"V", "X", "U"})>>, <<112, Pte(5, {"V"})>>, <<112, Pte(5, {"R", "W", "U"})>>,
     <<112, Bad>>}

Ctx(priv, satp, status, deleg) ==
    <<[H!cpu_reset EXCEPT !.priv = priv, !.satp = satp,
                          !.bits[H!CSR_MSTATUS] = status,
                          !.bits[H!CSR_MEDELEG] = deleg], 4>>
Machine        == Ctx(H!M_MODE, 8, {}, {})
MachineAsUser  == Ctx(H!M_MODE, 8, {H!MPRV}, {})
Supervisor     == Ctx(H!S_MODE, 8, {}, {12, 13, 15})
SupervisorSum  == Ctx(H!S_MODE, 8, {H!SUM, H!MXR}, {})
User           == Ctx(H!U_MODE, 8, {}, {12, 13, 15})
UnknownMode    == Ctx(H!S_MODE, 9, {}, {})

\* Reads through every variation of the tables, in every context.
Readers ==
    {[image |-> [BaseImage EXCEPT ![v[1]] = v[2]], reads |-> {0, 16, 32, 64, 192},
      stores |-> {}, atomics |-> {},
      contexts |-> {Machine, MachineAsUser, Supervisor, SupervisorSum, User, UnknownMode}] :
        v \in Variations}

\* Stores and atomics on the data page and on the tables themselves.
Writer == [image |-> BaseImage, reads |-> {32},
           stores |-> {<<8, 8>>, <<12, 8>>, <<18, 1>>},
           atomics |-> {<<0, 8>>, <<2, 4>>, <<16, 8>>},
           contexts |-> {SupervisorSum, User}]

\* Bare accesses around the end of RAM and of the address space.
Edge == [image |-> [w \in RamWord |-> Zero], reads |-> {},
         stores |-> {<<112, 4>>, <<116, 2>>, <<116, 8>>, <<124, 8>>, <<252, 8>>},
         atomics |-> {<<112, 8>>, <<116, 4>>, <<120, 8>>, <<248, 8>>, <<252, 4>>},
         contexts |-> {Machine}]

MCGuests == Readers \cup {Writer, Edge}
MCStoreValues == {Zero, Pte(5, {"V", "R", "W", "U"})}
MCVAddrs == {0, 2, 4, 8, 12, 16, 18, 32, 48, 64, 112, 116, 120, 124, 192, 248, 252}
MCTargets == MCVAddrs \cup {ppn * 16 + (va % 16) : ppn \in 0..7, va \in MCVAddrs}
=============================================================================
