----------------------------- MODULE MCExecute -----------------------------
EXTENDS Execute

CONSTANTS r1

Op(op, rs, alu_rd, lsu_rd, lat, mis) ==
  [op |-> op, rs |-> rs, alu_rd |-> alu_rd, lsu_rd |-> lsu_rd, lat |-> lat, mis |-> mis]

MCReg == {r1}

MCInsn ==
  {Op("alu", {}, r1, None, 0, FALSE),
   Op("alu", Reg, x0, None, 0, FALSE)}
    \cup {Op(op, Reg, r1, None, 0, FALSE) : op \in {"div", "mulh"}}
    \cup {Op("csr", {}, r1, None, 0, FALSE)}
    \cup {Op("jalr", rs, x0, None, 0, FALSE) : rs \in SUBSET Reg}
    \cup {Op("branch", Reg, None, None, 0, FALSE)}
    \cup {Op("apu", Reg, r1, None, lat, FALSE) : lat \in Lat}
    \cup {Op("apu", {}, x0, None, 3, FALSE)}
    \cup {Op("load", {}, None, r1, 0, mis) : mis \in BOOLEAN}
    \cup {Op("load", Reg, r1, x0, 0, TRUE), Op("store", Reg, r1, None, 0, FALSE)}
=============================================================================
