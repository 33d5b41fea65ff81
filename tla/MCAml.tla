------------------------------- MODULE MCAml --------------------------------
(* Firmware for module Aml: devices with batteries of several shapes, an   *)
(* embedded controller with a region, fields and a mutex, in every order   *)
(* and spread over the DSDT and two SSDTs.                                 *)
EXTENDS Aml, SequencesExt

\* The firmware's compiler: token sequences of terms.
Tok(op) == <<[op |-> op]>>
Seg(seg) == <<[op |-> "seg", seg |-> seg]>>
Num(n) == <<[op |-> "int", v |-> n]>>
Ones == Tok("ones")
Str(s) == <<[op |-> "string", v |-> s]>>
Local(n) == <<[op |-> "local", n |-> n]>>
Pack(ops, head, body) == ops \o <<[op |-> "len", len |-> 1 + Len(head) + Len(body)]>> \o head \o body
Device(seg, body) == Pack(Tok("ext") \o Tok("device"), Seg(seg), body)
Scope(body) == Pack(Tok("scope"), Seg("_SB_"), body)
Method(seg, body) == Pack(Tok("method"), Seg(seg) \o Tok("flags"), body)
NameOp(seg, value) == Tok("name") \o Seg(seg) \o value
Package(elems) == Pack(Tok("package"), Num(Len(elems)), FlattenSeq(elems))
ReturnOp(v) == Tok("return") \o v
Region == Tok("ext") \o Tok("opregion") \o Seg("ERAM") \o Tok("space") \o Num(0) \o Num(255)
Fields == Pack(Tok("ext") \o Tok("field"), Seg("ERAM") \o Tok("flags"),
               <<[op |-> "bits", seg |-> "", width |-> 8], [op |-> "bits", seg |-> "BRC0", width |-> 16]>>)
Mutex == Tok("ext") \o Tok("mutex") \o Seg("MTX0") \o Tok("sync")

\* Bodies of _BST that return <<n, the unknown rate, 3, 4>>.
Plain(n) == ReturnOp(Package(<<Num(n), Ones, Num(3), Num(4)>>))
WithLocal(n) == Tok("store") \o Num(n - 1) \o Local(0) \o Tok("inc") \o Local(0)
                \o ReturnOp(Package(<<Local(0), Tok("subtract") \o Num(0) \o Num(1) \o Tok("zero"),
                                    Tok("add") \o Num(1) \o Num(2) \o Tok("zero"),
                                    Tok("divide") \o Num(9) \o Num(2) \o Tok("zero") \o Tok("zero")>>))
WithIf(n) == Pack(Tok("if"), Num(1), Tok("store") \o Num(7) \o Local(1))
             \o Pack(Tok("else"), <<>>, ReturnOp(Num(0))) \o Plain(n)
\* One that reads its remaining capacity from a field, and one that returns in an If.
WithField(n) == ReturnOp(Package(<<Num(n), Ones, Seg("BRC0"), Num(4)>>))
ReturnInIf(n) == Pack(Tok("if"), Num(1), Plain(n))
Bif(n) == ReturnOp(Package(<<Num(1), Num(50), Num(10 + n), Num(1), Num(11), Str("QEMU BAT")>>))

\* Kinds of batteries: value of _HID, which method comes first, and
\* whether it lies in a scope of its own.
Kinds == [b1 |-> [hid |-> Str("PNP0C0A"), first |-> "bif", scope |-> FALSE],
          b2 |-> [hid |-> <<[op |-> "dword", v |-> "0x0AC80D41"]>>, first |-> "bst", scope |-> TRUE],
          b3 |-> [hid |-> Str("PNP0C0A"), first |-> "bst", scope |-> FALSE],
          b4 |-> [hid |-> Str("PNP0C0A"), first |-> "bif", scope |-> FALSE],
          b5 |-> [hid |-> Str("PNP0C0A"), first |-> "bif", scope |-> FALSE],
          b6 |-> [hid |-> <<[op |-> "dword", v |-> "0x0A0CD041"]>>, first |-> "bst", scope |-> FALSE]]
Bst(kind, n) == CASE kind = "b2" -> WithLocal(n) [] kind = "b3" -> WithIf(n) [] kind = "b4" -> WithField(n)
                  [] kind = "b5" -> ReturnInIf(n) [] OTHER -> Plain(n)
BatteryDev(kind, n) ==
  LET k == Kinds[kind]
      bst == Method("_BST", Bst(kind, n))
      bif == Method("_BIF", Bif(n))
      dev == Device("BAT0", NameOp("_HID", k.hid) \o NameOp("_UID", Num(0)) \o Method("_STA", ReturnOp(Num(31)))
                            \o (IF k.first = "bst" THEN bst \o bif ELSE bif \o bst))
  IN  IF k.scope THEN Scope(Mutex \o dev) ELSE dev
Controller == Device("EC0_", NameOp("_HID", Str("PNP0C09")) \o Region \o Fields \o Mutex \o Method("_STA", ReturnOp(Num(15))))

\* Things a table may hold; n is the number of the thing.
Thing(kind, n) == IF kind = "ec" THEN Controller ELSE BatteryDev(kind, n)
ThingKinds == {"ec"} \cup DOMAIN Kinds

\* Firmware with the things ks, split over the DSDT and up to two SSDTs.
Firmware(ks, i, j, rsdp) ==
  LET aml(from, to) == FlattenSeq([k \in 1 .. to - from + 1 |-> Thing(ks[from + k - 1], from + k - 1)])
      bats == SelectSeq([k \in 1 .. Len(ks) |-> k], LAMBDA k : ks[k] \notin {"ec", "b6"})
  IN  [rsdp |-> rsdp, dsdt |-> Scope(aml(1, i)),
       tables |-> <<[sig |-> "SSDT", aml |-> aml(i + 1, j)], [sig |-> "FACP", aml |-> <<>>],
                    [sig |-> "SSDT", aml |-> aml(j + 1, Len(ks))]>>,
       fields |-> \E k \in 1 .. Len(ks) : ks[k] = "ec",
       ec |-> [r \in {8} |-> 5],
       batteries |-> [k \in 1 .. Len(bats) |->
                        [bst |-> <<bats[k], UINT_RANGE - 1, IF ks[bats[k]] = "b4" THEN 5 ELSE 3, 4>>,
                         bif |-> <<1, 10 + bats[k]>>,
                         known |-> IF ks[bats[k]] = "b4" THEN {1, 2, 4} ELSE 1 .. 4,
                         straight |-> ks[bats[k]] # "b5",
                         heir |-> k = 1 /\ \E u \in 1 .. bats[1] : ks[u] = "b6"]]]
NoFirmware == [rsdp |-> FALSE, dsdt |-> <<>>, tables |-> <<>>, fields |-> FALSE, ec |-> <<>>, batteries |-> <<>>]
MCFirmwares == {NoFirmware}
               \cup UNION {{Firmware(ks, i, n, TRUE) : ks \in [1 .. n -> ThingKinds], i \in 0 .. n} : n \in 1 .. 2}
               \cup {Firmware(ks, 1, 2, TRUE) : ks \in [1 .. 3 -> ThingKinds]}
               \cup {Firmware(ks, 2, 3, rsdp) : ks \in [1 .. 4 -> {"b1", "b2", "b6"}], rsdp \in BOOLEAN}
=============================================================================
