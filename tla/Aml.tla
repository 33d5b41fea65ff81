--------------------------------- MODULE Aml --------------------------------
(***************************************************************************)
(* Batteries from the firmware's tables: acpi_init (kernel/acpi/acpi.c),   *)
(* battery_init and battery_get (battery.c), and the scanner and evaluator *)
(* of AML byte code (aml.c).  A stream is a sequence of tokens: an opcode, *)
(* a package length (the number of tokens from itself to its end), a name  *)
(* (the last segment of a path), a number or a string with its opcode.     *)
(* Positions, ends and lengths are those of the code, counted from 1.      *)
(* The firmware is external.                                               *)
(***************************************************************************)
EXTENDS Integers, Sequences

CONSTANTS
  Firmwares,      \* what the firmware may hold: [rsdp, tables, batteries]
  MAX_BATTERIES,
  MAX_EC_FIELDS,
  INT_RANGE,      \* number of values of an integer (2^64)
  UINT_RANGE,     \* and of a uint (2^32)
  MAX_ELEMENTS    \* of a package (16)

VARIABLES
  firmware,       \* the firmware of this machine
  acpi,           \* progress: at, next (number of SSDTs scanned)
  g_tables,       \* the tables of the XSDT or RSDT
  g_dsdt_phys,    \* the DSDT; <<>> if there is none
  g_battery_count,
  g_batteries,    \* battery -> token sequences of its methods, <<>> for none
  g_ec_fields,    \* [name, bit_offset, bit_width]
  battery         \* what battery_get returned last: [idx, ok, bst, bif]; at first
                  \* idx is MAX_BATTERIES

amlVars == <<firmware, acpi, g_tables, g_dsdt_phys, g_battery_count, g_batteries, g_ec_fields, battery>>

AmlInit ==
  /\ firmware \in Firmwares
  /\ acpi = [at |-> "off", next |-> 0]
  /\ g_tables = <<>> /\ g_dsdt_phys = <<>> /\ g_battery_count = 0 /\ g_ec_fields = <<>>
  /\ g_batteries = [i \in 0 .. MAX_BATTERIES - 1 |-> [bst |-> <<>>, bif |-> <<>>]]
  /\ battery = [idx |-> MAX_BATTERIES, ok |-> FALSE, bst |-> <<>>, bif |-> <<>>]

-----------------------------------------------------------------------------
(* The scanner.                                                            *)

\* sc_pkglen and the cut at the end of the scope.
Jump(data, pos, end) == IF pos + data[pos].len < end THEN pos + data[pos].len ELSE end

RECURSIVE sc_skip_term(_, _, _)
RECURSIVE Skips(_, _, _, _)
Skips(data, pos, end, n) == IF n = 0 THEN pos ELSE Skips(data, sc_skip_term(data, pos, end), end, n - 1)

Operands == [return |-> 1, inc |-> 1, store |-> 2, add |-> 3, subtract |-> 3, divide |-> 4]
Compound == {"scope", "package", "method", "if", "else", "while"}
ExtCompound == {"field", "device", "power"}

sc_skip_term(data, pos, end) ==
  IF pos >= end THEN pos
  ELSE LET op == data[pos].op
       IN  CASE op \in Compound -> Jump(data, pos + 1, end)
             [] op = "name" -> sc_skip_term(data, pos + 2, end)
             [] op \in DOMAIN Operands -> Skips(data, pos + 1, end, Operands[op])
             [] op = "ext" -> CASE data[pos + 1].op = "mutex" -> pos + 4
                                [] data[pos + 1].op = "opregion" -> Skips(data, pos + 4, end, 2)
                                [] data[pos + 1].op \in ExtCompound -> Jump(data, pos + 2, end)
                                [] OTHER -> pos + 2
             [] OTHER -> pos + 1

\* sc_parse_field_list: reserved bits and named fields, up to the table's size.
RECURSIVE sc_parse_field_list(_, _, _, _, _)
sc_parse_field_list(data, pos, end, base, fields) ==
  IF pos >= end \/ data[pos].op # "bits" THEN fields
  ELSE LET d == data[pos]
       IN  sc_parse_field_list(data, pos + 1, end, base + d.width,
             IF d.seg = "" \/ Len(fields) = MAX_EC_FIELDS THEN fields
             ELSE Append(fields, [name |-> d.seg, bit_offset |-> base, bit_width |-> d.width]))


\* Methods go to the battery whose _HID was seen last.
Newest(count) == IF count > 0 THEN count - 1 ELSE 0

\* A method of the name of a battery's, unless that battery has it; none when the
\* table of batteries is full.
attach(st, seg, body) ==
  LET bidx == Newest(st.count)
      field == IF seg = "_BST" THEN "bst" ELSE "bif"
  IN  IF /\ seg \in {"_BST", "_BIF", "_BIX"} /\ st.count < MAX_BATTERIES
         /\ st.bats[bidx][field] = <<>>
      THEN [st EXCEPT !.bats[bidx][field] = body] ELSE st

\* A _HID starts a battery when the one before has its _BST.  It is the string or
\* the number the code takes for its encoding; the encoding proper is 0x0A0CD041.
NewBattery(st, value) ==
  /\ value \in {"PNP0C0A", "0x0AC80D41"} /\ st.count < MAX_BATTERIES
  /\ st.count = 0 \/ st.bats[st.count - 1].bst # <<>>

RECURSIVE sc_scan_termlist(_, _, _)
\* One term of a list; st: pos, count, bats, fields.
sc_scan_term(data, st, end) ==
  LET pos == st.pos
      op == data[pos].op
      isDevice == op = "ext" /\ data[pos + 1].op = "device"
  IN  IF op \in {"scope", "ext"}
      THEN IF op = "ext" /\ ~isDevice
           THEN [st EXCEPT !.pos = sc_skip_term(data, pos, end)]
           ELSE LET p == IF isDevice THEN pos + 2 ELSE pos + 1
                    body_end == Jump(data, p, end)
                IN  [sc_scan_termlist(data, [st EXCEPT !.pos = p + 2], body_end) EXCEPT !.pos = body_end]
      ELSE IF op = "method"
      THEN LET body_end == Jump(data, pos + 1, end)
           IN  [attach(st, data[pos + 2].seg, SubSeq(data, pos + 4, body_end - 1)) EXCEPT !.pos = body_end]
      ELSE IF op = "name"
      THEN LET new == data[pos + 1].seg = "_HID" /\ NewBattery(st, data[pos + 2].v)
           IN  [st EXCEPT !.pos = sc_skip_term(data, pos + 2, end), !.count = IF new THEN @ + 1 ELSE @]
      ELSE IF op = "ext" /\ data[pos + 1].op = "field"
      THEN LET body_end == Jump(data, pos + 2, end)
           IN  [st EXCEPT !.pos = body_end, !.fields = sc_parse_field_list(data, pos + 5, body_end, 0, @)]
      ELSE [st EXCEPT !.pos = sc_skip_term(data, pos, end)]

sc_scan_termlist(data, st, end) ==
  IF st.pos >= end THEN st ELSE sc_scan_termlist(data, sc_scan_term(data, st, end), end)

\* aml_scan, after which the tables are what st holds.
aml_scan(data) ==
  LET st == sc_scan_termlist(data, [pos |-> 1, count |-> g_battery_count, bats |-> g_batteries,
                                    fields |-> g_ec_fields], Len(data) + 1)
  IN  /\ g_battery_count' = st.count
      /\ g_batteries' = st.bats
      /\ g_ec_fields' = st.fields

-----------------------------------------------------------------------------
(* The evaluator.                                                          *)

Invalid == [valid |-> FALSE, is_pkg |-> FALSE, int |-> 0, pkg |-> <<>>]
IntVal(n) == [Invalid EXCEPT !.valid = TRUE, !.int = n % INT_RANGE]
IntOf(v) == IF v.valid THEN v.int ELSE 0

\* read_ec_field, of a field that the scan has recorded.
read_ec_field(f) == firmware.ec[f.bit_offset]
FieldValue(seg) ==
  LET F == {i \in DOMAIN g_ec_fields : g_ec_fields[i].name = seg}
  IN  IF F = {} THEN 0 ELSE read_ec_field(g_ec_fields[CHOOSE i \in F : \A j \in F : i <= j])

\* The places for results, which are passed over and not written.
Targets(op) == IF op = "divide" THEN 2 ELSE 1

Arithmetic(op, a, b) ==
  CASE op = "add" -> a + b
    [] op = "subtract" -> a - b
    [] op = "divide" -> IF b = 0 THEN 0 ELSE a \div b

RECURSIVE ev_eval_term(_, _)
RECURSIVE Elements(_, _, _, _)
\* The elements of a package, as many as announced, as there are and as fit.
Elements(data, e, left, end) ==
  IF left = 0 \/ e.pos >= end THEN <<>>
  ELSE LET r == ev_eval_term(data, e) IN <<IntOf(r.v)>> \o Elements(data, r.e, left - 1, end)

\* ev_eval_term; e: pos, end, locals, done.  It returns what becomes of e, and a value.
ev_eval_term(data, e) ==
  IF e.pos >= e.end \/ e.done THEN [e |-> e, v |-> Invalid]
  ELSE LET t == data[e.pos]
           next == [e EXCEPT !.pos = @ + 1]
           To(p) == [e EXCEPT !.pos = p]
           skip == Jump(data, e.pos + 1, e.end)
       IN  CASE t.op = "int" -> [e |-> next, v |-> IntVal(t.v)]
             [] t.op = "ones" -> [e |-> next, v |-> IntVal(INT_RANGE - 1)]
             [] t.op = "local" -> [e |-> next, v |-> IntVal(e.locals[t.n])]
             [] t.op = "seg" -> [e |-> next, v |-> IntVal(FieldValue(t.seg))]
             [] t.op = "package" ->
                  [e |-> To(skip),
                   v |-> [Invalid EXCEPT !.valid = TRUE, !.is_pkg = TRUE,
                            !.pkg = Elements(data, To(e.pos + 3),
                                            IF data[e.pos + 2].v < MAX_ELEMENTS THEN data[e.pos + 2].v ELSE MAX_ELEMENTS, skip)]]
             [] t.op = "return" ->
                  LET r == ev_eval_term(data, next) IN [e |-> [r.e EXCEPT !.done = TRUE], v |-> r.v]
             [] t.op = "store" ->
                  LET r == ev_eval_term(data, next)
                      dest == data[r.e.pos]
                  IN  [e |-> [r.e EXCEPT !.pos = @ + 1,
                                         !.locals = IF dest.op = "local" THEN [@ EXCEPT ![dest.n] = IntOf(r.v)] ELSE @],
                       v |-> r.v]
             [] t.op \in {"add", "subtract", "divide"} ->
                  LET a == ev_eval_term(data, next)
                      b == ev_eval_term(data, a.e)
                  IN  [e |-> [b.e EXCEPT !.pos = @ + Targets(t.op)],
                       v |-> IntVal(IF a.v.valid /\ b.v.valid THEN Arithmetic(t.op, a.v.int, b.v.int) ELSE 0)]
             [] t.op = "inc" ->
                  [e |-> [e EXCEPT !.pos = @ + 2,
                                   !.locals = IF data[e.pos + 1].op = "local"
                                              THEN [@ EXCEPT ![data[e.pos + 1].n] = (@ + 1) % INT_RANGE] ELSE @],
                   v |-> Invalid]
             [] t.op = "if" ->
                  \* neither branch is run
                  LET predicate == ev_eval_term(data, To(e.pos + 2))
                      else == skip < e.end /\ data[skip].op = "else"
                  IN  [e |-> [predicate.e EXCEPT !.pos = IF else THEN Jump(data, skip + 1, e.end) ELSE skip],
                       v |-> Invalid]
             [] t.op \in {"while", "else"} -> [e |-> To(skip), v |-> Invalid]
             [] OTHER -> [e |-> next, v |-> Invalid]

\* ev_run_method: terms up to the first return.
RECURSIVE Run(_, _)
Run(data, e) ==
  IF e.pos >= e.end THEN Invalid
  ELSE LET r == ev_eval_term(data, e) IN IF r.e.done THEN r.v ELSE Run(data, r.e)
ev_run_method(data) ==
  Run(data, [pos |-> 1, end |-> Len(data) + 1, locals |-> [n \in 0 .. 7 |-> 0], done |-> FALSE])

-----------------------------------------------------------------------------
(* Operations.                                                             *)

\* The tables of a kind, in order: acpi_find_table_nth counts through them.
acpi_find_tables(sig) == SelectSeq(g_tables, LAMBDA t : t.sig = sig)

\* The RSDP leads to the tables, and the FADT to the DSDT.
acpi_init ==
  /\ acpi.at = "off"
  /\ acpi' = [acpi EXCEPT !.at = "dsdt"]
  /\ g_tables' = IF firmware.rsdp THEN firmware.tables ELSE <<>>
  /\ g_dsdt_phys' = IF firmware.rsdp /\ (\E i \in DOMAIN firmware.tables : firmware.tables[i].sig = "FACP")
                    THEN <<firmware.dsdt>> ELSE <<>>
  /\ UNCHANGED <<firmware, g_battery_count, g_batteries, g_ec_fields, battery>>

\* battery_init: without a DSDT the SSDTs are not scanned either.
battery_init ==
  /\ acpi.at = "dsdt"
  /\ IF g_dsdt_phys = <<>>
     THEN acpi' = [acpi EXCEPT !.at = "ready"] /\ UNCHANGED <<g_battery_count, g_batteries, g_ec_fields>>
     ELSE acpi' = [acpi EXCEPT !.at = "ssdt"] /\ aml_scan(g_dsdt_phys[1])
  /\ UNCHANGED <<firmware, g_tables, g_dsdt_phys, battery>>

scan_ssdt ==
  /\ acpi.at = "ssdt"
  /\ IF acpi.next < Len(acpi_find_tables("SSDT"))
     THEN acpi' = [acpi EXCEPT !.next = @ + 1] /\ aml_scan(acpi_find_tables("SSDT")[acpi.next + 1].aml)
     ELSE acpi' = [acpi EXCEPT !.at = "ready"] /\ UNCHANGED <<g_battery_count, g_batteries, g_ec_fields>>
  /\ UNCHANGED <<firmware, g_tables, g_dsdt_phys, battery>>

\* The (uint) of a package's elements at the positions of s.
Uints(pkg, s) == [i \in 1 .. Len(s) |-> pkg[s[i]] % UINT_RANGE]

\* battery_get, with aml_eval_bst and aml_eval_bif: of the latter the unit and the
\* full capacity are kept, and are 0 without it.
battery_get(idx) ==
  LET bat == g_batteries[idx]
      bst == ev_run_method(bat.bst)
      bif == ev_run_method(bat.bif)
  IN  /\ acpi.at = "ready"
      /\ battery' = IF idx < g_battery_count /\ Len(bst.pkg) >= 4
                    THEN [idx |-> idx, ok |-> TRUE, bst |-> Uints(bst.pkg, <<1, 2, 3, 4>>),
                          bif |-> IF Len(bif.pkg) >= 5 THEN Uints(bif.pkg, <<1, 3>>) ELSE <<0, 0>>]
                    ELSE [idx |-> idx, ok |-> FALSE, bst |-> <<>>, bif |-> <<>>]
      /\ UNCHANGED <<firmware, acpi, g_tables, g_dsdt_phys, g_battery_count, g_batteries, g_ec_fields>>

AmlNext == acpi_init \/ battery_init \/ scan_ssdt \/ \E idx \in 0 .. MAX_BATTERIES - 1 : battery_get(idx)

AmlSpec == AmlInit /\ [][AmlNext]_amlVars

-----------------------------------------------------------------------------
(* Properties.                                                             *)

\* Reference: the batteries there are to find, in the order of the tables: those
\* whose _HID the scanner knows.  Of each: bst and bif, what its methods return;
\* known, the positions of bst that no field of the controller goes into;
\* straight, whether its _BST returns outside every If; and heir, whether
\* batteries of other _HIDs come before it and none that is found.
Findable == IF g_dsdt_phys = <<>> THEN <<>> ELSE firmware.batteries


(* aml.c: the scan is to "build tables of EC field definitions": when all  *)
(* tables have been scanned the fields they define are known.              *)
FieldsKnown == acpi.at = "ready" /\ Findable # <<>> /\ firmware.fields => g_ec_fields # <<>>
=============================================================================
