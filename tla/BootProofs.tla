----------------------------- MODULE BootProofs -----------------------------
(***************************************************************************)
(* From the power-on of address line 20 to the prompt of the monitor, for  *)
(* every sector size, memory, kernel image, size of the page tables and    *)
(* amount of memory: the boot loader loses no command to the controller    *)
(* and enters a kernel only when its segments are in place, or a sector    *)
(* was copied with address line 20 still off; from entry to                *)
(* the monitor every instruction is fetched from where it was loaded and   *)
(* every write is allowed, the console survives the clearing of the BSS,   *)
(* and mem_init counts the memory the machine has.                         *)
(***************************************************************************)
EXTENDS PowerOn, WellFoundedInduction, SequenceTheorems, TLAPS

-----------------------------------------------------------------------------
(* The boot loader.                                                        *)

(* The handshake with the controller.                                      *)
Handshake ==
  /\ bpc = "seta20.1" => kbc \in {"empty", "0xdf"} /\ a20 = "off"
  /\ bpc = "0xd1" => kbc = "empty" /\ a20 = "off"
  /\ bpc = "seta20.2" => \/ kbc = "0xd1" /\ a20 = "off"
                         \/ kbc = "empty" /\ a20 = "expected"
  /\ bpc = "0xdf" => kbc = "empty" /\ a20 = "expected"
  /\ bpc \notin {"seta20.1", "0xd1", "seta20.2", "0xdf"} =>
       \/ kbc = "empty" /\ a20 = "on"
       \/ kbc = "0xdf" /\ a20 = "expected"

BeforeMain == bpc \in {"seta20.1", "0xd1", "seta20.2", "0xdf", "bootmain"}
Loading    == bpc \in {"readseg", "waitdisk", "readsect", "insl"}
Reading    == bpc \in {"waitdisk", "readsect", "insl"}

(* readseg is on its way through segment s: the sector that offset names   *)
(* belongs at pa.                                                          *)
InStep(s) ==
  /\ end_pa = s.p_pa + s.p_memsz
  /\ pa >= s.p_pa - (s.p_pa % SECTSIZE)
  /\ s.p_pa % SECTSIZE = s.p_offset % SECTSIZE =>
       (offset - 1) * SECTSIZE = s.p_offset + (pa - s.p_pa)

(* Segment k is loaded, as far as it is below bound, and its addresses     *)
(* reach it.                                                               *)
LoadedBelow(k, bound) ==
  \A b \in 0 .. elf.ph[k].p_filesz - 1 :
    elf.ph[k].p_pa + b < bound =>
      /\ Bus(elf.ph[k].p_pa + b) = elf.ph[k].p_pa + b
      /\ contents[elf.ph[k].p_pa + b] = elf.ph[k].p_offset + b

Placed(n) == \A k \in 1 .. n : LoadedBelow(k, MemSize)

BInv ==
  /\ BootTypeOK
  /\ Handshake
  /\ BeforeMain => seg = 0
  /\ seg > 0 \/ bpc = "entry" => elf.magic
  /\ seg > 0 /\ Loading => InStep(elf.ph[seg])
  /\ Reading => pa < end_pa
  /\ bpc = "insl" => lba = offset
  /\ bpc = "entry" => seg = Len(elf.ph)
  /\ ~wrapped /\ Congruent /\ Apart =>
       /\ Loading => Placed(seg - 1)
       /\ Loading /\ seg > 0 => LoadedBelow(seg, pa)
       /\ bpc = "entry" => Placed(seg)

-----------------------------------------------------------------------------
(* Sectors.                                                                *)

LEMMA Sizes ==
  /\ SECTSIZE \in Nat \ {0} /\ MemSize \in Nat
  /\ ELFHDR \in Nat /\ ELFHDR % SECTSIZE = 0
  /\ LINE20 \in Nat \ {0} /\ LINE20 % SECTSIZE = 0
BY BootAssumption

LEMMA QuotientBy ==
  ASSUME NEW n \in Nat \ {0}, NEW q \in Nat, NEW r \in 0 .. n - 1
  PROVE  /\ (q * n + r) % n = r
         /\ (q * n + r) \div n = q
OBVIOUS

LEMMA DivisionBy ==
  ASSUME NEW n \in Nat \ {0}, NEW a \in Nat
  PROVE  \E q \in Nat, r \in 0 .. n - 1 :
           /\ a \div n = q /\ a % n = r
           /\ a = q * n + r
<1> DEFINE q == a \div n
           r == a % n
<1>1. r \in 0 .. n - 1 /\ q \in Nat
  OBVIOUS
<1>2. a % n = a - n * (a \div n)
  OBVIOUS
<1>3. r = a - n * q
  BY <1>2
<1>4. q = a \div n /\ r = a % n
  OBVIOUS
<1> HIDE DEF q, r
<1>5. a = q * n + r
  BY <1>1, <1>3
<1> QED BY <1>1, <1>4, <1>5

LEMMA Quotient ==
  ASSUME NEW q \in Nat, NEW r \in 0 .. SECTSIZE - 1
  PROVE  /\ (q * SECTSIZE + r) % SECTSIZE = r
         /\ (q * SECTSIZE + r) \div SECTSIZE = q
BY Sizes, QuotientBy

LEMMA Division ==
  ASSUME NEW a \in Nat
  PROVE  \E q \in Nat, r \in 0 .. SECTSIZE - 1 :
           /\ a \div SECTSIZE = q /\ a % SECTSIZE = r
           /\ a = q * SECTSIZE + r
BY Sizes, DivisionBy

(* A sector lies in one megabyte.                                          *)
LEMMA OneMegabyte ==
  ASSUME NEW a \in Nat, a % SECTSIZE = 0,
         NEW x \in a .. a + SECTSIZE - 1
  PROVE  x \div LINE20 = a \div LINE20
<1>1. SECTSIZE \in Nat \ {0} /\ LINE20 \in Nat \ {0}
  BY Sizes
<1>2. PICK q \in Nat : a = q * SECTSIZE
  <2>1. PICK q \in Nat, r \in 0 .. SECTSIZE - 1 :
          a % SECTSIZE = r /\ a = q * SECTSIZE + r
    BY Division
  <2>2. a = q * SECTSIZE
    BY <1>1, <2>1
  <2> QED BY <2>2
<1>3. PICK m \in Nat : LINE20 = m * SECTSIZE
  <2>1. PICK m \in Nat, r \in 0 .. SECTSIZE - 1 :
          LINE20 % SECTSIZE = r /\ LINE20 = m * SECTSIZE + r
    BY <1>1, Division
  <2>2. LINE20 = m * SECTSIZE
    BY <1>1, <2>1, Sizes
  <2> QED BY <2>2
<1>4. PICK d \in Nat, t \in 0 .. LINE20 - 1 :
        a \div LINE20 = d /\ a = d * LINE20 + t
  BY <1>1, DivisionBy
<1> DEFINE j == q - d * m
<1>5. j \in Int
  BY <1>1
<1>6. d * LINE20 = (d * m) * SECTSIZE
  BY <1>1, <1>3
<1>7. t = j * SECTSIZE
  <2>1. t = q * SECTSIZE - (d * m) * SECTSIZE
    BY <1>1, <1>2, <1>4, <1>6
  <2> QED BY <1>1, <2>1
<1> HIDE DEF j
<1>8. j + 1 <= m
  <2>1. j * SECTSIZE < m * SECTSIZE
    BY <1>1, <1>3, <1>4, <1>7
  <2>2. j < m
    BY <1>1, <1>5, <2>1
  <2> QED BY <1>5, <2>2
<1>9. t + SECTSIZE <= LINE20
  <2>1. (j + 1) * SECTSIZE <= m * SECTSIZE
    BY <1>1, <1>5, <1>8
  <2>2. (j + 1) * SECTSIZE = j * SECTSIZE + SECTSIZE
    BY <1>1, <1>5
  <2> QED BY <1>1, <1>3, <1>5, <1>7, <2>1, <2>2
<1>10. PICK r \in 0 .. SECTSIZE - 1 : x = a + r
  <2>1. x - a \in 0 .. SECTSIZE - 1 /\ x = a + (x - a)
    BY <1>1
  <2> QED BY <2>1
<1>11. t + r \in 0 .. LINE20 - 1
  BY <1>1, <1>4, <1>9, <1>10
<1>12. x = d * LINE20 + (t + r)
  <2>1. d * LINE20 \in Nat
    BY <1>1, <1>4
  <2> QED BY <1>1, <1>4, <1>10, <2>1
<1> QED BY <1>1, <1>4, <1>11, <1>12, QuotientBy

(* A sector whose address is that of its memory holds no byte that is not. *)
LEMMA SectorOnBus ==
  ASSUME NEW a \in Nat, a % SECTSIZE = 0, Bus(a) = a,
         NEW x \in a .. a + SECTSIZE - 1
  PROVE  Bus(x) = x
<1>1. x \div LINE20 = a \div LINE20
  BY OneMegabyte
<1>2. ~(a20 # "on" /\ (a \div LINE20) % 2 = 1)
  BY Sizes DEF Bus
<1> QED BY <1>1, <1>2 DEF Bus

(* What is reached when the line is off is reached when it is on.          *)
LEMMA BusStays ==
  ASSUME NEW x \in Nat, Bus(x) = x, a20 = "on" => a20' = "on"
  PROVE  Bus(x)' = x
<1>1. ~(a20 # "on" /\ (x \div LINE20) % 2 = 1)
  BY Sizes DEF Bus
<1> QED BY <1>1 DEF Bus

(* The start of a's sector, and the start of the next.                     *)
LEMMA SectorStart ==
  ASSUME NEW a \in Nat
  PROVE  /\ a - (a % SECTSIZE) \in Nat
         /\ (a - (a % SECTSIZE)) % SECTSIZE = 0
         /\ a % SECTSIZE = 0 => (a + SECTSIZE) % SECTSIZE = 0
<1>1. PICK q \in Nat, r \in 0 .. SECTSIZE - 1 :
        a % SECTSIZE = r /\ a = q * SECTSIZE + r
  BY Division
<1>2. SECTSIZE \in Nat \ {0} /\ q * SECTSIZE \in Nat
  BY Sizes
<1>3. a - (a % SECTSIZE) = q * SECTSIZE + 0
  BY <1>1, <1>2
<1>4. (q * SECTSIZE + 0) % SECTSIZE = 0
  BY <1>2, Quotient
<1>5. ((q + 1) * SECTSIZE + 0) % SECTSIZE = 0
  BY <1>2, Quotient
<1>6. a % SECTSIZE = 0 => a + SECTSIZE = (q + 1) * SECTSIZE + 0
  BY <1>1, <1>2
<1> QED BY <1>2, <1>3, <1>4, <1>5, <1>6

(* A byte of an earlier sector lies below the sector of a.                 *)
LEMMA EarlierSector ==
  ASSUME NEW a \in Nat, NEW x \in Nat, Sector(x) < Sector(a)
  PROVE  x < a - (a % SECTSIZE)
<1>1. PICK q \in Nat, u \in 0 .. SECTSIZE - 1 :
        x \div SECTSIZE = q /\ x = q * SECTSIZE + u
  BY Division
<1>2. PICK r \in Nat, v \in 0 .. SECTSIZE - 1 :
        /\ a \div SECTSIZE = r /\ a % SECTSIZE = v
        /\ a = r * SECTSIZE + v
  BY Division
<1>3. SECTSIZE \in Nat \ {0} /\ q + 1 <= r
  BY <1>1, <1>2, Sizes DEF Sector
<1>4. (q + 1) * SECTSIZE <= r * SECTSIZE
  BY <1>3
<1>5. (q + 1) * SECTSIZE = q * SECTSIZE + SECTSIZE
  BY <1>3
<1>6. q * SECTSIZE \in Int /\ r * SECTSIZE \in Int
  BY <1>3
<1>7. a - (a % SECTSIZE) = r * SECTSIZE
  BY <1>2, <1>3, <1>6
<1> QED
  BY <1>1, <1>3, <1>4, <1>5, <1>6, <1>7

-----------------------------------------------------------------------------
(* Segments.                                                               *)

LEMMA Header ==
  ASSUME elf \in Images
  PROVE  /\ elf.magic \in BOOLEAN
         /\ Len(elf.ph) \in Nat /\ DOMAIN elf.ph = 1 .. Len(elf.ph)
         /\ \A k \in 1 .. Len(elf.ph) :
              /\ elf.ph[k].p_pa \in Nat /\ elf.ph[k].p_offset \in Nat
              /\ elf.ph[k].p_filesz \in Nat /\ elf.ph[k].p_memsz \in Nat
              /\ elf.ph[k].p_filesz <= elf.ph[k].p_memsz
              /\ elf.ph[k].p_pa + elf.ph[k].p_memsz <= MemSize
<1>1. elf.ph \in Seq(Proghdr) /\ elf.magic \in BOOLEAN
  BY BootAssumption
<1>2. Len(elf.ph) \in Nat /\ DOMAIN elf.ph = 1 .. Len(elf.ph)
  BY <1>1
<1>3. \A k \in 1 .. Len(elf.ph) : elf.ph[k] \in Proghdr
  BY <1>1
<1>4. \A k \in 1 .. Len(elf.ph) :
        /\ elf.ph[k].p_filesz <= elf.ph[k].p_memsz
        /\ elf.ph[k].p_pa + elf.ph[k].p_memsz <= MemSize
  BY <1>2, BootAssumption
<1> QED BY <1>1, <1>2, <1>3, <1>4 DEF Proghdr

(* Every byte of a part lies before the end of the whole.                  *)
LEMMA EndsBefore ==
  ASSUME NEW p \in Nat, NEW f \in Nat, NEW m \in Nat, NEW s \in Nat,
         NEW b \in Nat, b < f, f <= m, p + m <= s
  PROVE  p + b < s
OBVIOUS

LEMMA InMemory ==
  ASSUME elf \in Images, NEW k \in 1 .. Len(elf.ph),
         NEW b \in 0 .. elf.ph[k].p_filesz - 1
  PROVE  elf.ph[k].p_pa + b < MemSize
<1>1. /\ elf.ph[k].p_pa \in Nat
      /\ elf.ph[k].p_filesz \in Nat /\ elf.ph[k].p_memsz \in Nat
      /\ elf.ph[k].p_filesz <= elf.ph[k].p_memsz
      /\ elf.ph[k].p_pa + elf.ph[k].p_memsz <= MemSize
  BY Header
<1>2. b \in Nat /\ b < elf.ph[k].p_filesz
  BY <1>1
<1>3. MemSize \in Nat
  BY Sizes
<1> QED BY <1>1, <1>2, <1>3, EndsBefore

(* readseg reads a sector only for a header that asks for one.             *)
LEMMA ReadIsLoad ==
  ASSUME BootTypeOK, seg \in 1 .. Len(elf.ph), InStep(elf.ph[seg]),
         pa < end_pa
  PROVE  seg \in Loads
<1> DEFINE s == elf.ph[seg]
<1>1. /\ elf \in Images /\ pa \in Nat
      /\ pa >= s.p_pa - (s.p_pa % SECTSIZE) /\ end_pa = s.p_pa + s.p_memsz
  BY DEF BootTypeOK, InStep
<1>2. s.p_pa \in Nat /\ s.p_memsz \in Nat /\ seg \in DOMAIN elf.ph
  BY <1>1, Header
<1> HIDE DEF s
<1>3. s.p_memsz > 0 \/ s.p_pa % SECTSIZE # 0
  BY <1>1, <1>2
<1> QED BY <1>2, <1>3 DEF Loads, s

(* The segments before the current one end below the sector it begins in.  *)
LEMMA EarlierSegment ==
  ASSUME BootTypeOK, Apart, seg > 0, InStep(elf.ph[seg]), pa < end_pa,
         NEW j \in 1 .. seg - 1, NEW b \in 0 .. elf.ph[j].p_filesz - 1
  PROVE  elf.ph[j].p_pa + b < pa
<1> DEFINE s == elf.ph[seg]
           e == elf.ph[j].p_pa + elf.ph[j].p_memsz - 1
<1>1. elf \in Images /\ seg \in 1 .. Len(elf.ph) /\ pa \in Nat
  BY Header DEF BootTypeOK
<1>2. j \in DOMAIN elf.ph /\ seg \in DOMAIN elf.ph /\ j < seg
  BY <1>1, Header
<1>f. /\ elf.ph[j].p_pa \in Nat /\ elf.ph[j].p_memsz \in Nat
      /\ elf.ph[j].p_filesz \in Nat /\ s.p_pa \in Nat /\ s.p_memsz \in Nat
      /\ elf.ph[j].p_filesz <= elf.ph[j].p_memsz
  BY <1>1, <1>2, Header
<1>l. j \in Loads /\ seg \in Loads
  <2>1. elf.ph[j].p_memsz > 0
    BY <1>f
  <2> QED BY <1>1, <1>2, <2>1, ReadIsLoad DEF Loads
<1>3. Sector(e) < Sector(s.p_pa)
  BY <1>2, <1>l DEF Apart
<1>4. elf.ph[j].p_pa + b <= e /\ e \in Nat /\ s.p_pa \in Nat
  BY <1>f
<1> HIDE DEF e
<1>5. e < s.p_pa - (s.p_pa % SECTSIZE)
  BY <1>3, <1>4, EarlierSector
<1>6. s.p_pa - (s.p_pa % SECTSIZE) <= pa /\ s.p_pa - (s.p_pa % SECTSIZE) \in Nat
  BY <1>4, SectorStart DEF InStep
<1>7. elf.ph[j].p_pa + b \in Nat
  BY <1>1, <1>2, Header
<1> QED BY <1>1, <1>4, <1>5, <1>6, <1>7

(* When readseg is done, all segments so far are loaded.                   *)
LEMMA SegmentDone ==
  ASSUME BInv, bpc = "readseg", pa >= end_pa, ~wrapped, Congruent, Apart
  PROVE  Placed(seg)
<1> SUFFICES ASSUME NEW j \in 1 .. seg PROVE LoadedBelow(j, MemSize)
  BY DEF Placed
<1>1. BootTypeOK /\ Placed(seg - 1) /\ (seg > 0 => LoadedBelow(seg, pa))
  BY DEF BInv, Loading
<1>2. seg \in 1 .. Len(elf.ph) /\ elf \in Images /\ pa \in Nat
  BY <1>1, Header DEF BootTypeOK
<1>3. InStep(elf.ph[seg])
  BY <1>2 DEF BInv, Loading
<1>4. CASE j = seg
  <2> DEFINE s == elf.ph[j]
  <2> SUFFICES ASSUME NEW b \in 0 .. s.p_filesz - 1 PROVE s.p_pa + b < pa
    BY <1>1, <1>2, <1>4 DEF LoadedBelow
  <2>1. /\ s.p_pa \in Nat /\ s.p_filesz \in Nat /\ s.p_memsz \in Nat
        /\ s.p_filesz <= s.p_memsz
    BY <1>2, <1>4, Header
  <2>2. end_pa = s.p_pa + s.p_memsz
    BY <1>3, <1>4 DEF InStep
  <2> HIDE DEF s
  <2>3. b \in Nat /\ b < s.p_filesz
    BY <2>1
  <2> QED BY <1>2, <2>1, <2>2, <2>3
<1>5. CASE j # seg
  <2>1. j \in 1 .. seg - 1
    BY <1>2, <1>5
  <2> QED BY <1>1, <2>1 DEF Placed
<1> QED BY <1>4, <1>5

-----------------------------------------------------------------------------
(* The invariant.                                                          *)

LEMMA InitBInv == BootInit => BInv
<1> SUFFICES ASSUME BootInit PROVE BInv
  OBVIOUS
<1>1. elf \in Images /\ Len(elf.ph) \in Nat
  BY Header DEF BootInit
<1>2. 0 % SECTSIZE = 0
  BY Sizes
<1>3. BootTypeOK
  <2>1. contents \in [Cells -> Int \cup {Untouched}]
    BY DEF BootInit
  <2>2. wrapped \in BOOLEAN
    BY DEF BootInit
  <2>3. /\ seg \in 0 .. Len(elf.ph) /\ lba \in Nat
        /\ pa \in Nat /\ pa % SECTSIZE = 0 /\ end_pa \in Nat /\ offset \in Nat
    BY <1>1, <1>2 DEF BootInit
  <2>4. /\ kbc \in {"empty", "0xd1", "0xdf"} /\ a20 \in {"off", "expected", "on"}
        /\ disk \in {"ready", "busy"} /\ bpc = "seta20.1"
    BY DEF BootInit
  <2> QED BY <1>1, <2>1, <2>2, <2>3, <2>4 DEF BootTypeOK
<1> QED
  BY <1>3 DEF BootInit, BInv, Handshake, BeforeMain, Loading, Reading

(* Nothing that the loading depends on has changed.                        *)
LEMMA Undisturbed ==
  ASSUME BInv, BootTypeOK', Handshake', a20 = "on" => a20' = "on",
         UNCHANGED <<elf, contents, wrapped, seg, pa, end_pa, offset>>,
         \/ UNCHANGED <<bpc, lba>>
         \/ BeforeMain /\ BeforeMain'
         \/ /\ bpc \in {"readseg", "waitdisk", "readsect"}
            /\ bpc' \in {"waitdisk", "readsect", "insl"}
            /\ bpc = "readseg" => pa < end_pa
            /\ bpc' = "insl" => lba' = offset
  PROVE  BInv'
<1>1. ASSUME NEW k \in 1 .. Len(elf.ph), NEW bound, LoadedBelow(k, bound)
      PROVE  LoadedBelow(k, bound)'
  <2> SUFFICES ASSUME NEW b \in 0 .. elf.ph[k].p_filesz - 1,
                      elf.ph[k].p_pa + b < bound
               PROVE  /\ Bus(elf.ph[k].p_pa + b)' = elf.ph[k].p_pa + b
                      /\ contents[elf.ph[k].p_pa + b] = elf.ph[k].p_offset + b
    BY DEF LoadedBelow
  <2>1. /\ Bus(elf.ph[k].p_pa + b) = elf.ph[k].p_pa + b
        /\ contents[elf.ph[k].p_pa + b] = elf.ph[k].p_offset + b
    BY <1>1 DEF LoadedBelow
  <2>2. elf \in Images
    BY DEF BInv, BootTypeOK
  <2>3. elf.ph[k].p_pa \in Nat /\ elf.ph[k].p_filesz \in Nat
    BY <2>2, Header
  <2>4. elf.ph[k].p_pa + b \in Nat
    BY <2>3
  <2>5. Bus(elf.ph[k].p_pa + b)' = elf.ph[k].p_pa + b
    BY <2>1, <2>4, BusStays
  <2> QED BY <2>1, <2>5
<1>2. /\ Congruent' = Congruent /\ Apart' = Apart
      /\ InStep(elf.ph[seg])' = InStep(elf.ph[seg])
  BY DEF Congruent, Apart, Loads, InStep
<1>3. seg \in 0 .. Len(elf.ph) /\ Len(elf.ph) \in Nat
  BY Header DEF BInv, BootTypeOK
<1>4. /\ Placed(seg - 1) => Placed(seg - 1)'
      /\ Placed(seg) => Placed(seg)'
      /\ seg > 0 /\ LoadedBelow(seg, pa) => LoadedBelow(seg, pa)'
  <2>1. ASSUME NEW n \in {seg - 1, seg}, Placed(n)
        PROVE  \A k \in 1 .. n : LoadedBelow(k, MemSize)'
    <3>1. \A k \in 1 .. n : k \in 1 .. Len(elf.ph)
      BY <1>3
    <3> QED BY <1>1, <2>1, <3>1 DEF Placed
  <2>2. seg > 0 => seg \in 1 .. Len(elf.ph)
    BY <1>3
  <2>3. seg > 0 /\ LoadedBelow(seg, pa) => LoadedBelow(seg, pa)'
    BY <1>1, <2>2 DEF LoadedBelow
  <2> QED BY <2>1, <2>3 DEF Placed
<1>5. CASE UNCHANGED <<bpc, lba>>
  BY <1>2, <1>4, <1>5 DEF BInv, BeforeMain, Loading, Reading
<1>6. CASE BeforeMain /\ BeforeMain'
  BY <1>6 DEF BInv, BeforeMain, Loading, Reading
<1>7. CASE /\ bpc \in {"readseg", "waitdisk", "readsect"}
           /\ bpc' \in {"waitdisk", "readsect", "insl"}
           /\ bpc = "readseg" => pa < end_pa
           /\ bpc' = "insl" => lba' = offset
  BY <1>2, <1>4, <1>7 DEF BInv, BeforeMain, Loading, Reading
<1> QED BY <1>5, <1>6, <1>7

LEMMA BootmainStep == BInv /\ bootmain => BInv'
<1> SUFFICES ASSUME BInv, bootmain PROVE BInv'
  OBVIOUS
<1>1. /\ bpc = "bootmain" /\ bpc' = "readseg" /\ seg = 0
      /\ UNCHANGED <<elf, kbc, a20, disk, lba, contents, wrapped, seg>>
      /\ end_pa' = ELFHDR + SECTSIZE * HDRSECTS
      /\ pa' = ELFHDR - (ELFHDR % SECTSIZE)
      /\ offset' = 0 \div SECTSIZE + 1
  BY DEF BInv, bootmain, readseg, FirstSector, BeforeMain
<1>2. pa' \in Nat /\ pa' % SECTSIZE = 0
  BY <1>1, SectorStart, Sizes
<1>3. end_pa' \in Nat /\ offset' \in Nat
  BY <1>1, BootAssumption
<1>4. BootTypeOK'
  BY <1>1, <1>2, <1>3 DEF BInv, BootTypeOK
<1>5. Handshake'
  BY <1>1 DEF BInv, Handshake
<1>6. Placed(0 - 1)'
  BY DEF Placed
<1> QED
  BY <1>1, <1>4, <1>5, <1>6 DEF BInv, BeforeMain, Loading, Reading

(* A call of readseg for a segment begins in step with it.                 *)
LEMMA StartsInStep ==
  ASSUME elf \in Images, NEW k \in 1 .. Len(elf.ph),
         readseg(elf.ph[k].p_pa, elf.ph[k].p_memsz, elf.ph[k].p_offset),
         elf' = elf
  PROVE  /\ pa' \in Nat /\ pa' % SECTSIZE = 0 /\ pa' <= elf.ph[k].p_pa
         /\ end_pa' \in Nat /\ offset' \in Nat
         /\ InStep(elf.ph[k])'
<1> DEFINE s == elf.ph[k]
<1>1. s.p_pa \in Nat /\ s.p_memsz \in Nat /\ s.p_offset \in Nat
  BY Header
<1>2. /\ end_pa' = s.p_pa + s.p_memsz
      /\ pa' = s.p_pa - (s.p_pa % SECTSIZE)
      /\ offset' = s.p_offset \div SECTSIZE + 1
  BY DEF readseg, FirstSector
<1>3. PICK q \in Nat, r \in 0 .. SECTSIZE - 1 :
        /\ s.p_offset \div SECTSIZE = q /\ s.p_offset % SECTSIZE = r
        /\ s.p_offset = q * SECTSIZE + r
  BY <1>1, Division
<1>4. s.p_pa % SECTSIZE \in 0 .. SECTSIZE - 1 /\ SECTSIZE \in Nat
  BY <1>1, Division, Sizes
<1>5. offset' \in Nat /\ offset' - 1 = q
  BY <1>2, <1>3
<1>6. s.p_pa % SECTSIZE = s.p_offset % SECTSIZE =>
        (offset' - 1) * SECTSIZE = s.p_offset + (pa' - s.p_pa)
  <2> SUFFICES ASSUME s.p_pa % SECTSIZE = s.p_offset % SECTSIZE
               PROVE  (offset' - 1) * SECTSIZE = s.p_offset + (pa' - s.p_pa)
    OBVIOUS
  <2> DEFINE start == q * SECTSIZE
  <2>1. start \in Nat
    BY <1>4
  <2>2. (offset' - 1) * SECTSIZE = start
    BY <1>5
  <2>3. s.p_offset = start + r
    BY <1>3
  <2>4. pa' = s.p_pa - r
    BY <1>2, <1>3
  <2> HIDE DEF start
  <2>5. s.p_offset + (pa' - s.p_pa) = start
    BY <1>1, <2>1, <2>3, <2>4
  <2> QED BY <2>2, <2>5
<1>7. /\ pa' <= s.p_pa
      /\ pa' >= s.p_pa - (s.p_pa % SECTSIZE)
  <2> DEFINE x == s.p_pa
             rest == s.p_pa % SECTSIZE
  <2>1. x \in Nat /\ rest \in Nat /\ pa' = x - rest
    BY <1>1, <1>2, <1>4
  <2> HIDE DEF x, rest
  <2>2. pa' <= x /\ pa' >= x - rest
    BY <2>1
  <2> QED BY <2>2 DEF x, rest
<1>8. pa' \in Nat /\ pa' % SECTSIZE = 0 /\ pa' <= s.p_pa
  BY <1>1, <1>2, <1>7, SectorStart
<1>9. InStep(elf.ph[k])'
  <2>1. elf'.ph[k] = s
    OBVIOUS
  <2> HIDE DEF s
  <2> QED BY <1>2, <1>6, <1>7, <2>1 DEF InStep
<1>10. end_pa' \in Nat
  <2>1. end_pa' = s.p_pa + s.p_memsz
    BY <1>2
  <2> QED BY <1>1, <2>1
<1> QED BY <1>5, <1>8, <1>9, <1>10

LEMMA SegmentReadStep == BInv /\ SegmentRead => BInv'
<1> SUFFICES ASSUME BInv, SegmentRead PROVE BInv'
  OBVIOUS
<1>1. /\ bpc = "readseg" /\ pa >= end_pa
      /\ UNCHANGED <<elf, kbc, a20, disk, lba, contents, wrapped>>
  BY DEF SegmentRead
<1>2. BootTypeOK /\ Handshake /\ elf \in Images /\ Len(elf.ph) \in Nat
      /\ DOMAIN elf.ph = 1 .. Len(elf.ph)
  BY Header DEF BInv, BootTypeOK
<1>3. Congruent' = Congruent /\ Apart' = Apart
  BY <1>1 DEF Congruent, Apart, Loads
<1>4. bpc' \in {"readseg", "entry", "bad"} => Handshake'
  BY <1>1, <1>2 DEF Handshake
<1>5. ~wrapped /\ Congruent /\ Apart => Placed(seg)
  BY <1>1, SegmentDone
<1>p. Placed(seg) = \A j \in 1 .. seg : LoadedBelow(j, MemSize)'
  BY <1>1 DEF Placed, LoadedBelow, Bus
<1>6. CASE seg = 0 /\ ~elf.magic /\ bpc' = "bad"
           /\ UNCHANGED <<seg, pa, end_pa, offset>>
  <2>1. BootTypeOK'
    BY <1>1, <1>2, <1>6 DEF BootTypeOK
  <2> QED
    BY <1>1, <1>4, <1>6, <2>1 DEF BInv, BeforeMain, Loading, Reading
<1>7. CASE elf.magic /\ seg + 1 \notin DOMAIN elf.ph /\ bpc' = "entry"
           /\ UNCHANGED <<seg, pa, end_pa, offset>>
  <2>1. BootTypeOK'
    BY <1>1, <1>2, <1>7 DEF BootTypeOK
  <2>2. seg = Len(elf.ph)
    BY <1>2, <1>7 DEF BootTypeOK
  <2>3. ~wrapped /\ Congruent /\ Apart => Placed(seg)'
    BY <1>5, <1>p, <1>7 DEF Placed
  <2> QED
    BY <1>1, <1>3, <1>4, <1>7, <2>1, <2>2, <2>3
    DEF BInv, BeforeMain, Loading, Reading
<1>8. CASE /\ elf.magic /\ seg + 1 \in DOMAIN elf.ph /\ seg' = seg + 1
           /\ readseg(elf.ph[seg + 1].p_pa, elf.ph[seg + 1].p_memsz,
                      elf.ph[seg + 1].p_offset)
  <2>0. PICK k \in 1 .. Len(elf.ph) : k = seg + 1
    BY <1>2, <1>8
  <2>1. seg \in Nat /\ bpc' = "readseg" /\ seg' = k
    BY <1>2, <1>8, <2>0 DEF readseg, BootTypeOK
  <2>2. /\ pa' \in Nat /\ pa' % SECTSIZE = 0 /\ pa' <= elf.ph[k].p_pa
        /\ end_pa' \in Nat /\ offset' \in Nat
        /\ InStep(elf.ph[k])'
    BY <1>1, <1>2, <1>8, <2>0, StartsInStep
  <2>3. BootTypeOK'
    BY <1>1, <1>2, <2>1, <2>2 DEF BootTypeOK
  <2>4. InStep(elf.ph[seg])'
    BY <2>1, <2>2 DEF InStep
  <2>5. ASSUME ~wrapped, Congruent, Apart
        PROVE  Placed(seg - 1)'
    <3>1. seg' - 1 = seg
      BY <2>0, <2>1
    <3> QED BY <1>5, <1>p, <2>5, <3>1 DEF Placed
  <2>6. LoadedBelow(seg, pa)'
    <3> SUFFICES ASSUME NEW b \in 0 .. elf.ph[k].p_filesz - 1
                 PROVE  ~(elf.ph[k].p_pa + b < pa')
      BY <1>1, <2>1 DEF LoadedBelow
    <3>1. elf.ph[k].p_pa \in Nat /\ elf.ph[k].p_filesz \in Nat
      BY <1>2, Header
    <3> QED BY <2>2, <3>1
  <2> QED
    BY <1>1, <1>3, <1>4, <1>8, <2>1, <2>3, <2>4, <2>5, <2>6
    DEF BInv, BeforeMain, Loading, Reading
<1>9. seg > 0 => elf.magic
  BY DEF BInv
<1> QED
  BY <1>2, <1>6, <1>7, <1>8, <1>9 DEF SegmentRead, LoadSegment, BootTypeOK

LEMMA InslStep == BInv /\ insl => BInv'
<1> SUFFICES ASSUME BInv, insl PROVE BInv'
  OBVIOUS
<1> DEFINE at == Bus(pa)
<1>1. /\ bpc = "insl" /\ bpc' \in {"readseg", "overwritten"} /\ lba = offset
      /\ pa' = pa + SECTSIZE /\ offset' = offset + 1
      /\ wrapped' = (wrapped \/ at # pa)
      /\ UNCHANGED <<elf, kbc, a20, disk, lba, seg, end_pa>>
      /\ contents' = [c \in Cells |->
                   IF c \in at .. at + SECTSIZE - 1
                   THEN (lba - 1) * SECTSIZE + (c - at) ELSE contents[c]]
  BY DEF BInv, insl
<1>2. BootTypeOK /\ elf \in Images /\ seg \in 0 .. Len(elf.ph)
      /\ Len(elf.ph) \in Nat
  BY Header DEF BInv, BootTypeOK
<1>3. pa \in Nat /\ offset \in Nat /\ SECTSIZE \in Nat /\ MemSize \in Nat
  BY <1>2, Sizes DEF BootTypeOK
<1>4. pa' \in Nat /\ pa' % SECTSIZE = 0
  BY <1>1, <1>2, <1>3, SectorStart DEF BootTypeOK
<1>5. contents' \in [Cells -> Int \cup {Untouched}]
  <2>1. (lba - 1) * SECTSIZE \in Int
    BY <1>1, <1>3
  <2>2. at \in Int
    BY <1>3, Sizes DEF Bus
  <2>3. \A c \in Cells : (lba - 1) * SECTSIZE + (c - at) \in Int
    BY <2>1, <2>2 DEF Cells
  <2> QED BY <1>1, <1>2, <2>3 DEF BootTypeOK
<1>6. BootTypeOK'
  <2>1. wrapped' \in BOOLEAN
    BY <1>1
  <2> HIDE DEF at
  <2> QED BY <1>1, <1>2, <1>3, <1>4, <1>5, <2>1 DEF BootTypeOK
<1>7. Handshake'
  <2> HIDE DEF at
  <2> QED BY <1>1 DEF BInv, Handshake
<1>8. Congruent' = Congruent /\ Apart' = Apart
  BY <1>1 DEF Congruent, Apart, Loads
<1>9. (offset' - 1) * SECTSIZE = (offset - 1) * SECTSIZE + SECTSIZE
  BY <1>1, <1>3
<1>10. ASSUME seg > 0
       PROVE  InStep(elf.ph[seg])'
  <2> DEFINE s == elf.ph[seg]
  <2>1. s.p_pa \in Nat /\ s.p_offset \in Nat /\ s.p_pa % SECTSIZE \in Int
    <3>1. seg \in DOMAIN elf.ph
      BY <1>2, <1>10, Header
    <3>2. s.p_pa \in Nat /\ s.p_offset \in Nat
      BY <1>2, <3>1, Header
    <3> HIDE DEF s
    <3>3. s.p_pa % SECTSIZE \in Int
      BY <1>3, <3>2, Division, Sizes
    <3> QED BY <3>2, <3>3
  <2>2. InStep(s)
    BY <1>1, <1>10 DEF BInv, Loading
  <2>3. (offset - 1) * SECTSIZE \in Int
    BY <1>3
  <2>4. ASSUME s.p_pa % SECTSIZE = s.p_offset % SECTSIZE
        PROVE  (offset' - 1) * SECTSIZE = s.p_offset + (pa' - s.p_pa)
    <3>1. (offset - 1) * SECTSIZE = s.p_offset + (pa - s.p_pa)
      BY <2>2, <2>4 DEF InStep
    <3>2. (offset' - 1) * SECTSIZE = s.p_offset + (pa - s.p_pa) + SECTSIZE
      BY <1>9, <3>1
    <3> HIDE DEF s
    <3> QED BY <1>1, <1>3, <2>1, <3>2
  <2>5. pa' >= s.p_pa - (s.p_pa % SECTSIZE)
    BY <1>1, <1>3, <2>1, <2>2 DEF InStep
  <2> QED BY <1>1, <2>2, <2>4, <2>5 DEF InStep
<1>11. ASSUME ~wrapped', Congruent, Apart, seg > 0
       PROVE  (Placed(seg - 1) /\ LoadedBelow(seg, pa))'
  <2>1. ~wrapped /\ Bus(pa) = pa /\ pa < end_pa
    BY <1>1, <1>11 DEF BInv, Reading
  <2>2. /\ Placed(seg - 1) /\ LoadedBelow(seg, pa)
        /\ InStep(elf.ph[seg])
    BY <1>1, <1>11, <2>1 DEF BInv, Loading
  <2>3. \A x : Bus(x)' = Bus(x)
    BY <1>1 DEF Bus
  <2>4. \A x \in Cells : x < pa => contents'[x] = contents[x]
    BY <1>1, <1>3, <2>1 DEF Cells
  <2>5. \A x \in Cells :
          x >= pa /\ x < pa' =>
            contents'[x] = (offset - 1) * SECTSIZE + (x - pa)
    BY <1>1, <1>3, <2>1 DEF Cells
  <2>6. ASSUME NEW j \in 1 .. seg, NEW b \in 0 .. elf.ph[j].p_filesz - 1
        PROVE  /\ elf.ph[j].p_pa + b \in Cells /\ j \in 1 .. Len(elf.ph)
               /\ elf.ph[j].p_pa \in Nat /\ elf.ph[j].p_offset \in Nat
               /\ b \in Nat
    <3>1. j \in 1 .. Len(elf.ph)
      BY <1>2
    <3>2. /\ elf.ph[j].p_pa \in Nat /\ elf.ph[j].p_offset \in Nat
          /\ elf.ph[j].p_filesz \in Nat
      BY <1>2, <3>1, Header
    <3>3. elf.ph[j].p_pa + b < MemSize
      BY <1>2, <3>1, InMemory
    <3> QED BY <1>3, <3>1, <3>2, <3>3 DEF Cells
  <2>7. Placed(seg - 1)'
    <3> SUFFICES ASSUME NEW j \in 1 .. seg - 1,
                        NEW b \in 0 .. elf.ph[j].p_filesz - 1
                 PROVE  /\ Bus(elf.ph[j].p_pa + b) = elf.ph[j].p_pa + b
                        /\ contents'[elf.ph[j].p_pa + b]
                             = elf.ph[j].p_offset + b
      BY <1>1, <2>3 DEF Placed, LoadedBelow
    <3>1. j \in 1 .. seg
      BY <1>2
    <3>2. elf.ph[j].p_pa + b \in Cells /\ j \in 1 .. Len(elf.ph)
      BY <2>6, <3>1
    <3>3. elf.ph[j].p_pa + b < pa
      BY <1>2, <1>11, <2>1, <2>2, EarlierSegment
    <3>4. elf.ph[j].p_pa + b < MemSize
      BY <1>2, <3>2, InMemory
    <3>5. /\ Bus(elf.ph[j].p_pa + b) = elf.ph[j].p_pa + b
          /\ contents[elf.ph[j].p_pa + b] = elf.ph[j].p_offset + b
      BY <2>2, <3>4 DEF Placed, LoadedBelow
    <3> QED BY <2>4, <3>2, <3>3, <3>5
  <2>8. LoadedBelow(seg, pa)'
    <3> SUFFICES ASSUME NEW b \in 0 .. elf.ph[seg].p_filesz - 1,
                        elf.ph[seg].p_pa + b < pa'
                 PROVE  /\ Bus(elf.ph[seg].p_pa + b) = elf.ph[seg].p_pa + b
                        /\ contents'[elf.ph[seg].p_pa + b]
                             = elf.ph[seg].p_offset + b
      BY <1>1, <2>3 DEF LoadedBelow
    <3>1. /\ elf.ph[seg].p_pa + b \in Cells /\ seg \in 1 .. Len(elf.ph)
          /\ elf.ph[seg].p_pa \in Nat /\ elf.ph[seg].p_offset \in Nat
          /\ b \in Nat
      <4>1. seg \in 1 .. seg
        BY <1>2, <1>11
      <4> QED BY <2>6, <4>1
    <3>2. PICK x \in Cells : x = elf.ph[seg].p_pa + b
      BY <3>1
    <3>3. CASE x < pa
      BY <2>2, <2>4, <3>2, <3>3 DEF LoadedBelow
    <3>4. CASE x >= pa
      <4>1. x \in pa .. pa + SECTSIZE - 1
        BY <1>1, <1>3, <3>2, <3>4 DEF Cells
      <4>2. Bus(x) = x
        BY <1>2, <1>3, <2>1, <4>1, SectorOnBus DEF BootTypeOK
      <4>3. contents'[x] = (offset - 1) * SECTSIZE + (x - pa)
        BY <2>5, <3>2, <3>4
      <4>4. seg \in Loads
        BY <1>2, <2>1, <2>2, <3>1, ReadIsLoad
      <4>5. (offset - 1) * SECTSIZE
              = elf.ph[seg].p_offset + (pa - elf.ph[seg].p_pa)
        BY <1>11, <2>2, <4>4 DEF Congruent, InStep
      <4>6. contents'[x] = elf.ph[seg].p_offset + b
        <5> DEFINE start == elf.ph[seg].p_pa
                   off   == elf.ph[seg].p_offset
        <5>1. start \in Nat /\ off \in Nat /\ x = start + b
          BY <3>1, <3>2
        <5>2. contents'[x] = off + (pa - start) + (x - pa)
          BY <4>3, <4>5
        <5> HIDE DEF start, off
        <5>3. contents'[x] = off + b
          BY <1>3, <3>1, <5>1, <5>2
        <5> QED BY <5>3 DEF off
      <4> QED BY <3>2, <4>2, <4>6
    <3> QED BY <1>3, <3>2, <3>3, <3>4 DEF Cells
  <2> QED BY <2>7, <2>8
<1>12. seg = 0 => Placed(seg - 1)'
  BY <1>1 DEF Placed
<1>13. seg > 0 => elf.magic
  BY DEF BInv
<1> HIDE DEF at
<1>14. ~wrapped' /\ Congruent /\ Apart =>
         Placed(seg - 1)' /\ (seg > 0 => LoadedBelow(seg, pa)')
  BY <1>2, <1>11, <1>12
<1>15. /\ bpc' # "entry" /\ ~BeforeMain' /\ ~Reading' /\ bpc' # "insl"
       /\ seg' = seg /\ elf' = elf
  BY <1>1 DEF BeforeMain, Reading
<1> QED
  BY <1>6, <1>7, <1>8, <1>10, <1>13, <1>14, <1>15 DEF BInv

LEMMA NextBInv == BInv /\ [BootNext]_bvars => BInv'
<1> SUFFICES ASSUME BInv, [BootNext]_bvars PROVE BInv'
  OBVIOUS
<1>t. BootTypeOK /\ Handshake
  BY DEF BInv
<1>1. CASE KbcTakes
  <2>1. BootTypeOK'
    BY <1>t, <1>1 DEF KbcTakes, BootTypeOK
  <2>2. Handshake'
    BY <1>t, <1>1 DEF KbcTakes, Handshake
  <2>3. a20 # "on"
    BY <1>t, <1>1 DEF KbcTakes, Handshake, BootTypeOK
  <2> QED BY <1>1, <2>1, <2>2, <2>3, Undisturbed DEF KbcTakes
<1>2. CASE DiskReady
  <2>1. BootTypeOK' /\ Handshake'
    BY <1>t, <1>2 DEF DiskReady, BootTypeOK, Handshake
  <2> QED BY <1>2, <2>1, Undisturbed DEF DiskReady
<1>3. CASE seta20
  <2>1. BootTypeOK' /\ Handshake'
    BY <1>t, <1>3 DEF seta20, BootTypeOK, Handshake
  <2> QED BY <1>3, <2>1, Undisturbed DEF seta20, BeforeMain
<1>4. CASE outb_a20
  <2>1. BootTypeOK' /\ Handshake'
    BY <1>t, <1>4 DEF outb_a20, BootTypeOK, Handshake
  <2> QED BY <1>4, <2>1, Undisturbed DEF outb_a20, BeforeMain
<1>5. CASE NextSector
  <2>1. BootTypeOK' /\ Handshake'
    BY <1>t, <1>5 DEF NextSector, BootTypeOK, Handshake
  <2> QED BY <1>5, <2>1, Undisturbed DEF NextSector
<1>6. CASE waitdisk
  <2>1. BootTypeOK' /\ Handshake'
    BY <1>t, <1>6 DEF waitdisk, BootTypeOK, Handshake
  <2> QED BY <1>6, <2>1, Undisturbed DEF waitdisk
<1>7. CASE readsect
  <2>1. BootTypeOK' /\ Handshake'
    BY <1>t, <1>7 DEF readsect, BootTypeOK, Handshake
  <2> QED BY <1>7, <2>1, Undisturbed DEF readsect
<1>8. CASE UNCHANGED bvars
  <2>1. BootTypeOK' /\ Handshake'
    BY <1>t, <1>8 DEF bvars, BootTypeOK, Handshake
  <2> QED BY <1>8, <2>1, Undisturbed DEF bvars
<1> QED
  BY <1>1, <1>2, <1>3, <1>4, <1>5, <1>6, <1>7, <1>8,
     BootmainStep, SegmentReadStep, InslStep DEF BootNext, Processor

(* The handshake through the controller's one-byte buffer loses no command,*)
(* whenever the controller takes its bytes: from bootmain on, and so when  *)
(* the kernel is entered, address line 20 is on or the byte that turns it  *)
(* on is in the controller, which expects it.  That it is on is not so.    *)
THEOREM A20Correct == BootSpec => []A20Enabled
<1>1. BInv => A20Enabled
  BY DEF BInv, Handshake, A20Enabled
<1> QED
  BY InitBInv, NextBInv, <1>1, PTL DEF BootSpec

(* For every image whose segments share no sector, the processor finds all *)
(* of them at their addresses when the kernel is entered, however          *)
(* bootmain's rounding to sectors overwrites what is around them, if no    *)
(* sector was copied to an odd megabyte before the controller had taken    *)
(* its last byte; and only an ELF image is entered.                        *)
THEOREM LoadCorrect == BootSpec => []KernelLoaded
<1>1. BInv => KernelLoaded
  <2> SUFFICES ASSUME BInv, bpc = "entry", ~wrapped, Congruent, Apart
               PROVE  AllLoaded
    BY DEF BInv, KernelLoaded
  <2>1. elf \in Images /\ Placed(Len(elf.ph))
    BY DEF BInv, BootTypeOK
  <2> SUFFICES ASSUME NEW k \in 1 .. Len(elf.ph),
                      NEW b \in 0 .. elf.ph[k].p_filesz - 1
               PROVE  contents[Bus(elf.ph[k].p_pa + b)]
                        = elf.ph[k].p_offset + b
    BY <2>1, Header DEF AllLoaded
  <2>2. elf.ph[k].p_pa + b < MemSize
    BY <2>1, InMemory
  <2> QED BY <2>1, <2>2 DEF LoadedBelow, Placed
<1> QED
  BY InitBInv, NextBInv, <1>1, PTL DEF BootSpec

-----------------------------------------------------------------------------
(* From entry to the monitor.                                              *)

(* The physical page that holds page k of the image.                       *)
Loaded(k) == EXTPHYSMEM + k - 1

(* Only pages of the BSS lose what the boot loader put there.              *)
ImageKept ==
  \A k \in DOMAIN image : image[k] # "bss" => mem[Loaded(k)] = image[k]

Unpaged  == {"entry", "load_cr3", "load_cr4", "load_cr0"}
Low      == Unpaged \cup {"set_cr4", "jump"}
Measures == {"ext", "ext16", "memory", "panic", "monitor"}

(* What the processor's registers hold at each step.                       *)
Registers ==
  /\ paging <=> pc \notin Unpaged
  /\ pc \notin {"entry", "load_cr3"} => cr3 = RELOC(pgdir_page)
  /\ eip = IF pc \in Low THEN RELOC(entry)
           ELSE IF pc \in {"relocated", "call_i386_init"} THEN entry
           ELSE c_code
  /\ pc \notin StacklessSteps => esp = bootstacktop

(* What the NVRAM says of the memory below 640K, above 1M and above 16M,   *)
(* the last in units of 64K.                                               *)
BaseSize  == AtMost(ram, 640)
ExtSize   == AtMost(Above(ram, 1024), MaxWord)
Ext16Size == AtMost(Above(ram, 16384) \div 64, MaxWord)

(* What has been read of it.                                               *)
ReadSoFar ==
  /\ pc \in Measures => basemem = BaseSize
  /\ pc \in Measures \ {"ext"} => extmem = ExtSize
  /\ pc \in Measures \ {"ext", "ext16"} => ext16mem = Ext16Size * 64
  /\ pc \in {"panic", "monitor"} =>
       npages = totalmem \div 4 /\ npages_basemem = basemem \div 4

KInv == TypeOK /\ ImageKept /\ Registers /\ ConsoleKept /\ ReadSoFar

-----------------------------------------------------------------------------
(* Numbers.                                                                *)

LEMMA Least ==
  ASSUME NEW S \in SUBSET Nat, S # {}
  PROVE  Min(S) \in S /\ \A y \in S : Min(S) <= y
<1> DEFINE R == {ss \in Nat \X Nat : ss[1] < ss[2]}
<1>1. IsWellFoundedOn(R, Nat)
  BY NatLessThanWellFounded DEF OpToRel
<1> HIDE DEF R
<1>2. PICK x \in S : \A y \in S : <<y, x>> \notin R
  BY <1>1, WFMin
<1>3. x \in Nat /\ \A y \in S : y \in Nat
  OBVIOUS
<1>4. \A y \in S : x <= y
  <2> SUFFICES ASSUME NEW y \in S, y < x PROVE FALSE
    BY <1>3
  <2>1. <<y, x>> \in R
    BY <1>3 DEF R
  <2> QED BY <1>2, <2>1
<1> QED BY <1>4 DEF Min

LEMMA Greatest ==
  ASSUME NEW S \in SUBSET Nat, NEW b \in Nat, S # {}, \A y \in S : y <= b
  PROVE  Max(S) \in S /\ \A y \in S : y <= Max(S)
<1> DEFINE T == {b - y : y \in S}
<1>1. T \in SUBSET Nat /\ T # {}
  <2>1. \A y \in S : b - y \in Nat
    OBVIOUS
  <2> QED BY <2>1
<1>2. PICK y \in S : \A z \in T : b - y <= z
  <2>1. Min(T) \in T /\ \A z \in T : Min(T) <= z
    BY <1>1, Least
  <2> QED BY <2>1
<1>3. \A z \in S : y >= z
  <2> SUFFICES ASSUME NEW z \in S PROVE y >= z
    OBVIOUS
  <2>1. b - z \in T
    OBVIOUS
  <2>2. b - y <= b - z
    BY <1>2, <2>1
  <2>3. y \in Nat /\ z \in Nat
    OBVIOUS
  <2> HIDE DEF T
  <2> QED BY <2>2, <2>3
<1> QED BY <1>3 DEF Max

(* Page x of the q-th table.                                               *)
LEMMA TablePage ==
  ASSUME NEW N \in Nat \ {0}, NEW q \in Nat, NEW x \in 0 .. N - 1
  PROVE  /\ (q * N + x) \div N = q /\ (q * N + x) % N = x
         /\ \A M \in Nat : q < M => q * N + x \in 0 .. M * N - 1
OBVIOUS

LEMMA TwoBytes ==
  ASSUME NEW n \in Nat
  PROVE  (n % 256) + 256 * (n \div 256) = n
OBVIOUS

-----------------------------------------------------------------------------
(* The image and its pages.                                                *)

LEMMA ImageFacts ==
  ASSUME image \in Kernels
  PROVE  /\ Len(image) \in Nat /\ Len(image) >= 1
         /\ DOMAIN image = 1 .. Len(image)
         /\ EXTPHYSMEM + Len(image) <= NPTENTRIES
         /\ image[1] = "text"
         /\ \A kind \in Kinds : \E k \in DOMAIN image : image[k] = kind
<1>1. /\ image \in Seq(Kinds) /\ EXTPHYSMEM + Len(image) <= NPTENTRIES
      /\ image[1] = "text"
      /\ \A kind \in {"pgdir", "pgtable", "stack"} :
           \E k \in DOMAIN image : image[k] = kind
      /\ \E k \in DOMAIN image : image[k] = "bss"
  BY EntryAssumption
<1>2. DOMAIN image = 1 .. Len(image) /\ Len(image) \in Nat
  BY <1>1
<1>3. Len(image) >= 1
  BY <1>1, <1>2
<1>4. 1 \in DOMAIN image
  BY <1>2, <1>3
<1> QED BY <1>1, <1>2, <1>3, <1>4 DEF Kinds

LEMMA Numbers ==
  /\ NPTENTRIES \in Nat \ {0} /\ KERNPDX \in Nat \ {0} /\ NPDENTRIES \in Nat
  /\ KERNPDX < NPDENTRIES /\ 0 < NPDENTRIES
  /\ KERNBASE \in Nat /\ KERNBASE >= NPTENTRIES
  /\ CGA_BUF \in Nat /\ EXTPHYSMEM \in Nat /\ CGA_BUF < EXTPHYSMEM
BY EntryAssumption DEF KERNBASE

(* Where a physical page is seen above KERNBASE, and below.                *)
LEMMA Seen ==
  ASSUME NEW x \in Physical
  PROVE  /\ KERNBASE + x \in Virtual /\ x \in Virtual
         /\ PDX(KERNBASE + x) = KERNPDX /\ PTX(KERNBASE + x) = x
         /\ PDX(x) = 0 /\ PTX(x) = x
         /\ RELOC(KERNBASE + x) = x /\ x < KERNBASE /\ KERNBASE + x >= KERNBASE
         /\ x \in Nat /\ x < NPTENTRIES
<1>1. x \in 0 .. NPTENTRIES - 1 /\ x \in Nat /\ x < NPTENTRIES
  BY Numbers DEF Physical
<1>2. /\ (KERNPDX * NPTENTRIES + x) \div NPTENTRIES = KERNPDX
      /\ (KERNPDX * NPTENTRIES + x) % NPTENTRIES = x
      /\ KERNPDX * NPTENTRIES + x \in 0 .. NPDENTRIES * NPTENTRIES - 1
  BY <1>1, Numbers, TablePage
<1>3. /\ (0 * NPTENTRIES + x) \div NPTENTRIES = 0
      /\ (0 * NPTENTRIES + x) % NPTENTRIES = x
      /\ 0 * NPTENTRIES + x \in 0 .. NPDENTRIES * NPTENTRIES - 1
  BY <1>1, Numbers, TablePage
<1>4. 0 * NPTENTRIES + x = x
  BY <1>1, Numbers
<1>5. RELOC(KERNBASE + x) = x /\ x < KERNBASE /\ KERNBASE + x >= KERNBASE
  BY <1>1, Numbers DEF RELOC
<1> QED BY <1>1, <1>2, <1>3, <1>4, <1>5 DEF KERNBASE, Virtual, PDX, PTX

LEMMA LinkFacts ==
  ASSUME image \in Kernels, NEW k \in DOMAIN image
  PROVE  /\ Loaded(k) \in Physical /\ Loaded(k) # CGA_BUF
         /\ Link(k) = KERNBASE + Loaded(k) /\ Link(k) \in Nat
         /\ Link(k) <= KERNBASE + NPTENTRIES
         /\ \A j \in DOMAIN image : Loaded(j) = Loaded(k) => j = k
BY ImageFacts, Numbers DEF Loaded, Link, Physical

(* The pages the code knows by name are pages of their kind.               *)
LEMMA NamedPages ==
  ASSUME image \in Kernels
  PROVE  /\ \E k \in DOMAIN image : image[k] = "pgdir" /\ pgdir_page = Link(k)
         /\ \E k \in DOMAIN image :
              image[k] = "pgtable" /\ pgtable_page = Link(k)
         /\ \E k \in DOMAIN image :
              image[k] = "stack" /\ bootstacktop = Link(k)
         /\ \E k \in DOMAIN image : image[k] = "text" /\ c_code = Link(k)
         /\ \E k \in DOMAIN image : image[k] = "bss" /\ console_page = Link(k)
<1>1. \A kind \in Kinds :
        /\ LinkOf(kind) \in SUBSET Nat /\ LinkOf(kind) # {}
        /\ \A v \in LinkOf(kind) : v <= KERNBASE + NPTENTRIES
        /\ \A v \in LinkOf(kind) :
             \E k \in DOMAIN image : image[k] = kind /\ v = Link(k)
  BY ImageFacts, LinkFacts DEF LinkOf
<1>2. KERNBASE + NPTENTRIES \in Nat
  BY Numbers
<1>3. \A kind \in Kinds :
        Min(LinkOf(kind)) \in LinkOf(kind) /\ Max(LinkOf(kind)) \in LinkOf(kind)
  <2> SUFFICES ASSUME NEW kind \in Kinds
               PROVE  /\ Min(LinkOf(kind)) \in LinkOf(kind)
                      /\ Max(LinkOf(kind)) \in LinkOf(kind)
    OBVIOUS
  <2> QED BY <1>1, <1>2, Least, Greatest
<1> QED BY <1>1, <1>3
    DEF Kinds, pgdir_page, pgtable_page, bootstacktop, c_code, console_page, bss

(* The page of each name in memory, as long as the image is kept.          *)
LEMMA NamedContents ==
  ASSUME image \in Kernels, ImageKept
  PROVE  /\ RELOC(pgdir_page) \in Physical /\ mem[RELOC(pgdir_page)] = "pgdir"
         /\ RELOC(pgtable_page) \in Physical
         /\ mem[RELOC(pgtable_page)] = "pgtable"
         /\ \E x \in Physical : bootstacktop = KERNBASE + x /\ mem[x] = "stack"
         /\ \E x \in Physical : c_code = KERNBASE + x /\ mem[x] = "text"
         /\ entry = KERNBASE + EXTPHYSMEM /\ EXTPHYSMEM \in Physical
         /\ mem[EXTPHYSMEM] = "text"
<1>1. \A k \in DOMAIN image :
        /\ Loaded(k) \in Physical /\ Link(k) = KERNBASE + Loaded(k)
        /\ RELOC(Link(k)) = Loaded(k)
        /\ image[k] # "bss" => mem[Loaded(k)] = image[k]
  BY LinkFacts, Seen DEF ImageKept
<1>2. /\ 1 \in DOMAIN image /\ image[1] = "text" /\ Loaded(1) = EXTPHYSMEM
  BY ImageFacts, Numbers DEF Loaded
<1>3. /\ entry = KERNBASE + EXTPHYSMEM /\ EXTPHYSMEM \in Physical
      /\ mem[EXTPHYSMEM] = "text"
  BY <1>1, <1>2 DEF entry
<1> QED BY <1>1, <1>3, NamedPages

-----------------------------------------------------------------------------
(* The walk of the MMU: both windows show the first pages of memory, the   *)
(* high one for writing too.                                               *)
LEMMA Walk ==
  ASSUME image \in Kernels, ImageKept, paging, cr3 = RELOC(pgdir_page),
         NEW x \in Physical
  PROVE  /\ Mapped(KERNBASE + x) /\ Translate(KERNBASE + x) = x
         /\ Writable(KERNBASE + x)
         /\ Mapped(x) /\ Translate(x) = x
<1>1. /\ PDX(KERNBASE + x) = KERNPDX /\ PTX(KERNBASE + x) = x
      /\ PDX(x) = 0 /\ PTX(x) = x /\ KERNPDX # 0
  BY Seen, Numbers
<1>2. /\ DOMAIN entry_pgdir = {0, KERNPDX}
      /\ entry_pgdir[0].page = RELOC(pgtable_page)
      /\ entry_pgdir[KERNPDX].page = RELOC(pgtable_page)
      /\ entry_pgdir[KERNPDX].PTE_W
  BY Numbers DEF entry_pgdir, Entry
<1>3. /\ DOMAIN entry_pgtable = Physical
      /\ entry_pgtable[x].page = x /\ entry_pgtable[x].PTE_W
  BY DEF entry_pgtable, Entry, Physical
<1>4. mem[cr3] = "pgdir" /\ mem[RELOC(pgtable_page)] = "pgtable"
  BY NamedContents
<1>5. Mapped(KERNBASE + x) /\ Mapped(x)
  BY <1>1, <1>2, <1>3, <1>4 DEF Mapped
<1>6. Writable(KERNBASE + x)
  BY <1>1, <1>2, <1>3, <1>5 DEF Writable
<1> QED BY <1>1, <1>3, <1>5, <1>6 DEF Translate

LEMMA BssPages ==
  ASSUME image \in Kernels
  PROVE  /\ console_page \in bss
         /\ \A v \in bss : \E k \in DOMAIN image :
              /\ image[k] = "bss" /\ v = KERNBASE + Loaded(k)
              /\ Loaded(k) \in Physical
<1>1. bss = {Link(k) : k \in {j \in DOMAIN image : image[j] = "bss"}}
  BY DEF bss, LinkOf
<1>2. console_page \in bss
  BY <1>1, NamedPages
<1> QED BY <1>1, <1>2, LinkFacts

(* No step faults.                                                         *)
LEMMA Executes == KInv => Executable
<1> SUFFICES ASSUME KInv PROVE Executable
  OBVIOUS
<1> USE DEF KInv
<1>1. image \in Kernels
  BY DEF TypeOK
<1>2. /\ EXTPHYSMEM \in Physical /\ mem[EXTPHYSMEM] = "text"
      /\ entry = KERNBASE + EXTPHYSMEM /\ RELOC(entry) = EXTPHYSMEM
      /\ EXTPHYSMEM < KERNBASE
  BY <1>1, NamedContents, Seen
<1>3. paging => cr3 = RELOC(pgdir_page)
  BY DEF Registers, Unpaged
<1>4. Fetched
  <2>1. CASE pc \in Low
    <3>1. eip = EXTPHYSMEM
      BY <1>2, <2>1 DEF Registers
    <3>2. Mapped(eip) /\ Translate(eip) = eip
      <4>1. CASE paging
        BY <1>1, <1>2, <1>3, <3>1, <4>1, Walk
      <4>2. CASE ~paging
        BY <1>2, <3>1, <4>2 DEF Mapped, Translate
      <4> QED BY <4>1, <4>2
    <3>3. ~(eip >= KERNBASE)
      BY <1>2, <3>1, Numbers
    <3> QED BY <1>2, <3>1, <3>2, <3>3 DEF Fetched
  <2>2. CASE pc \notin Low
    <3>1. paging
      BY <2>2 DEF Registers, Low
    <3>2. eip = entry \/ eip = c_code
      BY <2>2 DEF Registers
    <3>3. PICK x \in Physical : eip = KERNBASE + x /\ mem[x] = "text"
      BY <1>1, <1>2, <3>2, NamedContents
    <3>4. Mapped(eip) /\ Translate(eip) = x
      BY <1>1, <1>3, <3>1, <3>3, Walk
    <3>5. eip >= KERNBASE /\ RELOC(eip) = x
      BY <3>3, Seen
    <3> QED BY <3>3, <3>4, <3>5 DEF Fetched
  <2> QED BY <2>1, <2>2
<1>5. ASSUME NEW v \in Writes(pc)
      PROVE  Writable(v)
  <2>1. CASE pc = "entry"
    <3>1. v = 0 /\ ~paging
      BY <1>5, <2>1 DEF Writes, BDA, Registers, Unpaged
    <3> QED BY <3>1, Numbers DEF Writable, Mapped, Physical
  <2>2. CASE pc \notin StacklessSteps
    <3>1. paging
      BY <2>2 DEF Registers, StacklessSteps, Unpaged
    <3>2. v \in bss \/ v = console_page \/ v = KERNBASE + CGA_BUF
      BY <1>5, <2>2 DEF Writes, StacklessSteps
    <3>3. CGA_BUF \in Physical
      BY <1>2, Numbers DEF Physical
    <3>4. \E x \in Physical : v = KERNBASE + x
      BY <1>1, <3>2, <3>3, BssPages
    <3> QED BY <1>1, <1>3, <3>1, <3>4, Walk
  <2>3. CASE pc \in StacklessSteps \ {"entry"}
    BY <1>5, <2>3 DEF Writes, StacklessSteps
  <2> QED BY <2>1, <2>2, <2>3
<1>6. Stacked
  <2> SUFFICES ASSUME pc \notin StacklessSteps
               PROVE  Writable(esp) /\ mem[Translate(esp)] = "stack"
    BY DEF Stacked
  <2>1. paging /\ esp = bootstacktop
    BY DEF Registers, StacklessSteps, Unpaged
  <2>2. PICK x \in Physical : bootstacktop = KERNBASE + x /\ mem[x] = "stack"
    BY <1>1, NamedContents
  <2> QED BY <1>1, <1>3, <2>1, <2>2, Walk
<1> QED BY <1>4, <1>5, <1>6 DEF Executable

-----------------------------------------------------------------------------
(* Every step.                                                             *)

LEMMA SameImage ==
  ASSUME image' = image
  PROVE  /\ pgdir_page' = pgdir_page /\ bootstacktop' = bootstacktop
         /\ c_code' = c_code /\ console_page' = console_page /\ bss' = bss
BY DEF pgdir_page, bootstacktop, c_code, console_page, bss, LinkOf

LEMMA SameSizes ==
  ASSUME ram' = ram, basemem' = basemem, extmem' = extmem,
         ext16mem' = ext16mem
  PROVE  /\ totalmem' = totalmem /\ BaseSize' = BaseSize
         /\ ExtSize' = ExtSize /\ Ext16Size' = Ext16Size
BY DEF totalmem, BaseSize, ExtSize, Ext16Size

LEMMA Entered == Init => KInv
<1> SUFFICES ASSUME Init PROVE KInv
  OBVIOUS
<1>1. image \in Kernels
  BY DEF Init
<1>2. /\ \A k \in DOMAIN image : /\ Loaded(k) \in Physical
                                 /\ Loaded(k) # CGA_BUF
                                 /\ Loaded(k) - EXTPHYSMEM + 1 = k
      /\ \A k \in DOMAIN image : image[k] \in Kinds
  <2>1. \A k \in DOMAIN image : Loaded(k) - EXTPHYSMEM + 1 = k
    BY <1>1, ImageFacts, Numbers DEF Loaded
  <2>2. \A k \in DOMAIN image : image[k] \in Kinds
    BY <1>1, EntryAssumption
  <2> QED BY <1>1, <2>1, <2>2, LinkFacts
<1>3. mem = [p \in Physical |->
               IF p = CGA_BUF THEN "device"
               ELSE IF p - EXTPHYSMEM + 1 \in DOMAIN image
               THEN image[p - EXTPHYSMEM + 1] ELSE "free"]
  BY DEF Init
<1>4. ImageKept
  BY <1>2, <1>3 DEF ImageKept
<1>5. mem \in [Physical -> Kinds \cup {"free", "device", "zero", "console"}]
  BY <1>2, <1>3
<1>6. /\ pc = "entry" /\ eip = RELOC(entry) /\ esp = BDA
      /\ paging = FALSE /\ cr3 = 0 /\ cr4 = [page |-> 0, flags |-> {}]
  BY DEF Init
<1>7. Registers
  BY <1>6 DEF Registers, Unpaged, Low, StacklessSteps
<1>8. /\ 0 \in Physical /\ 0 \in Virtual /\ RELOC(entry) \in Virtual
  <2>1. 0 \in Physical
    BY Numbers DEF Physical
  <2>2. EXTPHYSMEM \in Physical /\ RELOC(entry) = EXTPHYSMEM
    BY <1>1, <1>4, NamedContents, Seen
  <2> QED BY <2>1, <2>2, Seen
<1>9. cr4 \in [page : Physical, flags : SUBSET {"PVI", "PSE", "VME"}]
  BY <1>6, <1>8
<1>10. TypeOK
  <2>1. /\ npages \in 0 .. MaxRAM \div 4 /\ npages_basemem \in 0 .. npages
        /\ basemem \in 0 .. 640 /\ extmem \in 0 .. MaxWord
        /\ ext16mem \in 0 .. 64 * MaxWord
    <3>1. /\ basemem = 0 /\ extmem = 0 /\ ext16mem = 0
          /\ npages = 0 /\ npages_basemem = 0
      BY DEF Init
    <3>2. 0 <= MaxRAM \div 4 /\ 0 <= MaxWord /\ MaxRAM \div 4 \in Nat
      BY SMT DEF MaxRAM, MaxWord
    <3>3. MaxWord \in Nat /\ 64 * MaxWord \in Nat
      BY SMT DEF MaxWord
    <3> QED BY <3>1, <3>2, <3>3
  <2>2. /\ ram \in RAMs /\ panicstr \in {"garbage", "null", "fmt"}
        /\ printed = <<>>
    BY DEF Init
  <2>3. printed \in Seq({"6828_decimal", "Physical_memory", "kernel_panic"})
    BY <2>2
  <2>4. /\ eip \in Virtual /\ esp \in Virtual /\ paging \in BOOLEAN
        /\ cr3 \in Physical /\ pc \in StacklessSteps
    BY <1>6, <1>8 DEF BDA, StacklessSteps
  <2> QED BY <1>1, <1>5, <1>9, <2>1, <2>2, <2>3, <2>4 DEF TypeOK
<1>11. ConsoleKept /\ ReadSoFar
  BY <1>6 DEF ConsoleKept, ReadSoFar, Measures
<1> QED BY <1>4, <1>7, <1>10, <1>11 DEF KInv

(* entry.S writes registers only.                                          *)
LEMMA EntryStep ==
  ASSUME KInv,
         \/ movw_warm_boot \/ load_cr3 \/ load_cr4 \/ load_cr0 \/ set_cr4
         \/ jump \/ relocated \/ call_i386_init
  PROVE  KInv'
<1>1. /\ UNCHANGED <<image, ram, mem, panicstr, printed>>
      /\ UNCHANGED <<basemem, extmem, ext16mem, npages, npages_basemem>>
      /\ pc' \in {"load_cr3", "load_cr4", "load_cr0", "set_cr4", "jump",
                  "relocated", "call_i386_init", "memset"}
  BY DEF movw_warm_boot, load_cr3, load_cr4, load_cr0, set_cr4, jump,
         relocated, call_i386_init, memory, sizes
<1>2. /\ image \in Kernels /\ eip \in Virtual /\ esp \in Virtual
      /\ cr3 \in Physical /\ paging \in BOOLEAN
      /\ cr4 \in [page : Physical, flags : SUBSET {"PVI", "PSE", "VME"}]
  BY DEF KInv, TypeOK
<1>3. /\ RELOC(pgdir_page) \in Physical /\ bootstacktop \in Virtual
      /\ c_code \in Virtual /\ entry \in Virtual
  BY <1>2, NamedContents, Seen DEF KInv
<1>4. /\ pgdir_page' = pgdir_page /\ bootstacktop' = bootstacktop
      /\ c_code' = c_code /\ console_page' = console_page
  BY <1>1, SameImage
<1>5. Registers'
  BY <1>4
  DEF KInv, Registers, Unpaged, Low, StacklessSteps, regs, Runs,
      movw_warm_boot, load_cr3, load_cr4, load_cr0, set_cr4, jump,
      relocated, call_i386_init
<1>6. cr4' \in [page : Physical, flags : SUBSET {"PVI", "PSE", "VME"}]
  <2>1. CASE load_cr4
    BY <1>3, <2>1 DEF load_cr4
  <2>2. CASE set_cr4
    BY <1>2, <2>2 DEF set_cr4
  <2>3. CASE ~load_cr4 /\ ~set_cr4
    BY <1>2, <2>3
    DEF movw_warm_boot, load_cr3, load_cr0, jump, relocated, call_i386_init,
        regs
  <2> QED BY <2>1, <2>2, <2>3
<1>7. /\ eip' \in Virtual /\ esp' \in Virtual
      /\ cr3' \in Physical /\ paging' \in BOOLEAN
  BY <1>2, <1>3
  DEF movw_warm_boot, load_cr3, load_cr4, load_cr0, set_cr4, jump, relocated,
      call_i386_init, regs
<1>8. TypeOK'
  BY <1>1, <1>6, <1>7 DEF KInv, TypeOK, StacklessSteps
<1>9. ImageKept' /\ ConsoleKept' /\ ReadSoFar'
  BY <1>1 DEF KInv, ImageKept, ConsoleKept, ReadSoFar, Measures
<1> QED BY <1>5, <1>8, <1>9 DEF KInv

(* From memset on the registers stay as they are.                          *)
Compiled == {"memset", "cons_init", "cprintf", "base", "ext", "ext16",
             "memory", "panic", "monitor"}

LEMMA RegistersKept ==
  ASSUME KInv, image' = image, UNCHANGED regs,
         pc \in Compiled, pc' \in Compiled
  PROVE  Registers'
BY SameImage
DEF KInv, Registers, Unpaged, Low, StacklessSteps, Compiled, regs

LEMMA InitStep ==
  ASSUME KInv, memset \/ cons_init \/ cprintf_6828
  PROVE  KInv'
<1>1. /\ UNCHANGED <<image, ram, regs>>
      /\ UNCHANGED <<basemem, extmem, ext16mem, npages, npages_basemem>>
      /\ \/ pc = "memset" /\ pc' = "cons_init"
         \/ pc = "cons_init" /\ pc' = "cprintf"
         \/ pc = "cprintf" /\ pc' = "base"
      /\ panicstr' \in {panicstr, "null"}
      /\ \/ printed' = printed
         \/ printed' = Append(printed, "6828_decimal")
  BY DEF memset, cons_init, cprintf_6828, Runs, ClearsBss, memory, sizes
<1>2. /\ image \in Kernels /\ paging /\ cr3 = RELOC(pgdir_page) /\ ImageKept
      /\ mem \in [Physical -> Kinds \cup {"free", "device", "zero", "console"}]
  BY <1>1 DEF KInv, TypeOK, Registers, Unpaged
<1>3. \A v \in bss : \E k \in DOMAIN image :
        image[k] = "bss" /\ Translate(v) = Loaded(k) /\ RELOC(v) = Loaded(k)
        /\ Loaded(k) \in Physical
  BY <1>2, BssPages, Walk, Seen
<1>4. /\ \A k \in DOMAIN image :
           image[k] # "bss" =>
             /\ Loaded(k) \in Physical
             /\ \A v \in bss : Translate(v) # Loaded(k)
      /\ \A p \in Physical :
           (\A v \in bss : Translate(v) # p) => mem'[p] = mem[p]
      /\ mem' \in [Physical -> Kinds \cup {"free", "device", "zero", "console"}]
      /\ pc = "cons_init" => mem'[RELOC(console_page)] = "console"
      /\ pc = "cprintf" => mem' = mem
  <2>1. \A k \in DOMAIN image :
          image[k] # "bss" =>
            /\ Loaded(k) \in Physical
            /\ \A v \in bss : Translate(v) # Loaded(k)
    BY <1>2, <1>3, LinkFacts
  <2>2. console_page \in bss
    BY <1>2, BssPages
  <2>3. CASE memset
    <3>1. /\ pc = "memset"
          /\ mem' = [p \in Physical |->
                       IF \E v \in bss : Translate(v) = p
                       THEN "zero" ELSE mem[p]]
      BY <2>3 DEF memset, Runs, ClearsBss
    <3> QED BY <1>2, <2>1, <3>1
  <2>4. CASE cons_init
    <3>1. /\ pc = "cons_init"
          /\ mem' = [mem EXCEPT ![Translate(console_page)] = "console"]
      BY <2>4 DEF cons_init, Runs
    <3>2. /\ Translate(console_page) = RELOC(console_page)
          /\ Translate(console_page) \in Physical
      BY <1>3, <2>2
    <3> QED BY <1>2, <2>1, <2>2, <3>1, <3>2
  <2>5. CASE cprintf_6828
    <3>1. pc = "cprintf" /\ mem' = mem
      BY <2>5 DEF cprintf_6828, Runs, memory
    <3> QED BY <1>2, <2>1, <3>1
  <2> QED BY <2>3, <2>4, <2>5
<1>5. ImageKept'
  BY <1>1, <1>2, <1>4 DEF ImageKept
<1>6. ConsoleKept'
  <2>1. console_page' = console_page
    BY <1>1, SameImage
  <2>2. CASE pc = "cprintf"
    BY <1>1, <1>4, <2>1, <2>2 DEF KInv, ConsoleKept, RELOC
  <2>3. CASE pc # "cprintf"
    BY <1>1, <1>4, <2>1, <2>3 DEF ConsoleKept, RELOC
  <2> QED BY <2>2, <2>3
<1>7. Registers'
  BY <1>1, RegistersKept DEF Compiled
<1>8. TypeOK'
  <2>1. printed' \in Seq({"6828_decimal", "Physical_memory", "kernel_panic"})
    BY <1>1 DEF KInv, TypeOK
  <2> QED BY <1>1, <1>4, <2>1 DEF KInv, TypeOK, regs
<1>9. ReadSoFar'
  BY <1>1 DEF ReadSoFar, Measures
<1> QED BY <1>5, <1>6, <1>7, <1>8, <1>9 DEF KInv

LEMMA RamSize == KInv => ram \in Nat /\ ram <= MaxRAM /\ MaxRAM \in Nat
<1>1. KInv => ram \in 0 .. MaxRAM
  BY EntryAssumption DEF KInv, TypeOK
<1>2. MaxRAM \in Nat
  BY SMT DEF MaxRAM
<1> QED BY <1>1, <1>2, SMT

LEMMA Capped ==
  ASSUME NEW n \in Nat, NEW limit \in Nat
  PROVE  AtMost(n, limit) \in 0 .. limit
BY DEF AtMost

(* The two bytes of a size read back as the size.                          *)
LEMMA ReadBack ==
  ASSUME NEW lo \in Nat, NEW n \in Nat
  PROVE  Bytes(lo, n)[lo] + 256 * Bytes(lo, n)[lo + 1] = n
<1>1. Bytes(lo, n)[lo] = n % 256 /\ Bytes(lo, n)[lo + 1] = n \div 256
  BY DEF Bytes
<1> QED BY <1>1, TwoBytes

LEMMA Nvram ==
  ASSUME ram \in Nat
  PROVE  /\ nvram_read(NVRAM_BASELO) = BaseSize
         /\ nvram_read(NVRAM_EXTLO) = ExtSize
         /\ nvram_read(NVRAM_EXT16LO) = Ext16Size
         /\ BaseSize \in 0 .. 640 /\ ExtSize \in 0 .. MaxWord
         /\ Ext16Size \in 0 .. MaxWord
         /\ BaseSize \in Nat /\ ExtSize \in Nat /\ Ext16Size \in Nat
<1>1. MaxWord \in Nat
  BY SMT DEF MaxWord
<1>2. BaseSize \in 0 .. 640
  BY SMT DEF AtMost, BaseSize
<1>3. ExtSize \in 0 .. MaxWord
  <2> DEFINE above == Above(ram, 1024)
  <2>1. above \in Nat
    BY SMT DEF Above
  <2> HIDE DEF above
  <2>2. AtMost(above, MaxWord) \in 0 .. MaxWord
    BY <1>1, <2>1, Capped
  <2> QED BY <2>2 DEF above, ExtSize
<1>4. Ext16Size \in 0 .. MaxWord
  <2> DEFINE above == Above(ram, 16384)
             units == above \div 64
  <2>1. above \in Nat
    BY SMT DEF Above
  <2> HIDE DEF above
  <2>2. units \in Nat
    BY <2>1, SMT
  <2> HIDE DEF units
  <2>3. AtMost(units, MaxWord) \in 0 .. MaxWord
    BY <1>1, <2>2, Capped
  <2> QED BY <2>3 DEF above, units, Ext16Size
<1>5. BaseSize \in Nat /\ ExtSize \in Nat /\ Ext16Size \in Nat
  BY <1>1, <1>2, <1>3, <1>4, SMT
<1>6. nvram_read(NVRAM_BASELO) = BaseSize
  <2>1. /\ nvram(21) = Bytes(21, BaseSize)[21]
        /\ nvram(21 + 1) = Bytes(21, BaseSize)[21 + 1]
    BY DEF nvram, NVRAM_BASELO, NVRAM_EXTLO, NVRAM_EXT16LO, BaseSize
  <2>2. nvram_read(NVRAM_BASELO) = nvram(21) + 256 * nvram(21 + 1)
    BY DEF nvram_read, mc146818_read, NVRAM_BASELO
  <2> QED BY <1>5, <2>1, <2>2, ReadBack, SMT
<1>7. nvram_read(NVRAM_EXTLO) = ExtSize
  <2>1. /\ nvram(23) = Bytes(23, ExtSize)[23]
        /\ nvram(23 + 1) = Bytes(23, ExtSize)[23 + 1]
    BY DEF nvram, NVRAM_BASELO, NVRAM_EXTLO, NVRAM_EXT16LO, ExtSize
  <2>2. nvram_read(NVRAM_EXTLO) = nvram(23) + 256 * nvram(23 + 1)
    BY DEF nvram_read, mc146818_read, NVRAM_EXTLO
  <2> QED BY <1>5, <2>1, <2>2, ReadBack, SMT
<1>8. nvram_read(NVRAM_EXT16LO) = Ext16Size
  <2>1. /\ nvram(52) = Bytes(52, Ext16Size)[52]
        /\ nvram(52 + 1) = Bytes(52, Ext16Size)[52 + 1]
    BY DEF nvram, NVRAM_BASELO, NVRAM_EXTLO, NVRAM_EXT16LO, Ext16Size
  <2>2. nvram_read(NVRAM_EXT16LO) = nvram(52) + 256 * nvram(52 + 1)
    BY DEF nvram_read, mc146818_read, NVRAM_EXT16LO
  <2> QED BY <1>5, <2>1, <2>2, ReadBack, SMT
<1> QED BY <1>2, <1>3, <1>4, <1>5, <1>6, <1>7, <1>8

(* Reading the NVRAM.                                                      *)
LEMMA NvramStep ==
  ASSUME KInv, read_base \/ read_ext \/ read_ext16
  PROVE  KInv'
<1>1. /\ UNCHANGED <<image, ram, mem, regs, panicstr, printed>>
      /\ npages' = npages /\ npages_basemem' = npages_basemem
      /\ \/ /\ pc = "base" /\ pc' = "ext"
            /\ basemem' = nvram_read(NVRAM_BASELO)
            /\ extmem' = extmem /\ ext16mem' = ext16mem
         \/ /\ pc = "ext" /\ pc' = "ext16"
            /\ extmem' = nvram_read(NVRAM_EXTLO)
            /\ basemem' = basemem /\ ext16mem' = ext16mem
         \/ /\ pc = "ext16" /\ pc' = "memory"
            /\ ext16mem' = nvram_read(NVRAM_EXT16LO) * 64
            /\ basemem' = basemem /\ extmem' = extmem
  BY DEF read_base, read_ext, read_ext16, Runs, memory
<1>2. ram \in Nat
  BY RamSize
<1>3. /\ nvram_read(NVRAM_BASELO) = BaseSize /\ BaseSize \in 0 .. 640
      /\ nvram_read(NVRAM_EXTLO) = ExtSize /\ ExtSize \in 0 .. MaxWord
      /\ nvram_read(NVRAM_EXT16LO) = Ext16Size /\ Ext16Size \in 0 .. MaxWord
      /\ Ext16Size \in Nat
  BY <1>2, Nvram
<1>4. ReadSoFar'
  <2>1. BaseSize' = BaseSize /\ ExtSize' = ExtSize /\ Ext16Size' = Ext16Size
    BY <1>1 DEF BaseSize, ExtSize, Ext16Size
  <2>2. ReadSoFar
    BY DEF KInv
  <2>3. /\ pc' \in Measures => basemem' = BaseSize'
        /\ pc' \in Measures \ {"ext"} => extmem' = ExtSize'
        /\ pc' \in Measures \ {"ext", "ext16"} => ext16mem' = Ext16Size' * 64
        /\ pc' \notin {"panic", "monitor"}
    BY <1>1, <1>3, <2>1, <2>2 DEF ReadSoFar, Measures
  <2> QED BY <2>3 DEF ReadSoFar
<1>5. /\ basemem' \in 0 .. 640 /\ extmem' \in 0 .. MaxWord
      /\ ext16mem' \in 0 .. 64 * MaxWord
  <2>1. /\ basemem \in 0 .. 640 /\ extmem \in 0 .. MaxWord
        /\ ext16mem \in 0 .. 64 * MaxWord
    BY DEF KInv, TypeOK
  <2>2. Ext16Size * 64 \in 0 .. 64 * MaxWord
    <3>1. MaxWord \in Nat
      BY SMT DEF MaxWord
    <3> QED BY <1>3, <3>1, SMT
  <2> QED BY <1>1, <1>3, <2>1, <2>2
<1>6. TypeOK'
  BY <1>1, <1>5 DEF KInv, TypeOK, regs
<1>7. Registers'
  BY <1>1, RegistersKept DEF Compiled
<1>8. ImageKept' /\ ConsoleKept'
  <2>1. console_page' = console_page
    BY <1>1, SameImage
  <2> QED BY <1>1, <2>1 DEF KInv, ImageKept, ConsoleKept, RELOC
<1> QED BY <1>4, <1>6, <1>7, <1>8 DEF KInv

(* What mem_init makes of the three sizes.                                 *)
LEMMA Total ==
  ASSUME KInv, pc \in {"memory", "panic", "monitor"}
  PROVE  /\ totalmem \in 0 .. ram /\ totalmem \in 0 .. MaxRAM
         /\ basemem \in 0 .. totalmem /\ basemem <= 640
         /\ ram > 1024 => ram - (totalmem \div 4) * 4 < 64
<1> DEFINE above == Above(ram, 16384)
           units == above \div 64
<1>1. /\ basemem = AtMost(ram, 640)
      /\ extmem = AtMost(Above(ram, 1024), MaxWord)
      /\ ext16mem = AtMost(units, MaxWord) * 64
  BY DEF KInv, ReadSoFar, Measures, BaseSize, ExtSize, Ext16Size
<1>2. ram \in Nat /\ ram <= MaxRAM /\ MaxRAM \in Nat
  BY RamSize
<1>3. above \in Nat /\ above = IF ram > 16384 THEN ram - 16384 ELSE 0
  BY <1>2, SMT DEF Above
<1> HIDE DEF above
<1>4. units \in Nat /\ 64 * units <= above /\ above < 64 * units + 64
  BY <1>3, SMT
<1> HIDE DEF units
<1>5. basemem = IF ram > 640 THEN 640 ELSE ram
  BY <1>1, SMT DEF AtMost
<1>6. CASE units # 0
  <2>1. units <= MaxWord
    BY <1>2, <1>3, <1>4, SMT DEF MaxRAM, MaxWord
  <2>2. ext16mem = 64 * units
    BY <1>1, <1>4, <2>1, SMT DEF AtMost, MaxWord
  <2>3. totalmem = 16384 + 64 * units
    BY <1>4, <1>6, <2>2, SMT DEF totalmem
  <2>4. (totalmem \div 4) * 4 = totalmem
    BY <1>4, <2>3, SMT
  <2>5. above = ram - 16384 /\ ram > 16384
    BY <1>2, <1>3, <1>4, <1>6, SMT
  <2> DEFINE t == totalmem
             down == (t \div 4) * 4
  <2> HIDE DEF t, down
  <2>6. t = 16384 + 64 * units /\ down = t
    BY <2>3, <2>4 DEF t, down
  <2>7. /\ t \in Nat /\ t <= ram /\ t <= MaxRAM
        /\ basemem \in Nat /\ basemem <= t /\ basemem <= 640
        /\ ram - down < 64
    BY <1>2, <1>4, <1>5, <2>5, <2>6, SMT
  <2>8. /\ t \in 0 .. ram /\ t \in 0 .. MaxRAM
        /\ basemem \in 0 .. t /\ basemem <= 640
        /\ ram > 1024 => ram - down < 64
    BY <1>2, <2>7, SMT
  <2> QED BY <2>8 DEF t, down
<1>7. CASE units = 0
  <2>1. ext16mem = 0 /\ ram < 16384 + 64
    BY <1>1, <1>2, <1>3, <1>4, <1>7, SMT DEF AtMost, MaxWord
  <2>2. extmem = IF ram > 1024 THEN ram - 1024 ELSE 0
    BY <1>1, <1>2, <2>1, SMT DEF AtMost, Above, MaxWord
  <2>3. totalmem = IF ram > 1024 THEN ram ELSE basemem
    BY <1>2, <2>1, <2>2, SMT DEF totalmem
  <2> DEFINE t == totalmem
             down == (t \div 4) * 4
  <2>4. t \in Nat /\ t <= ram /\ basemem \in Nat /\ basemem <= t
        /\ basemem <= 640 /\ (ram > 1024 => t = ram)
    BY <1>2, <1>5, <2>3, SMT
  <2> HIDE DEF t
  <2>5. down \in Nat /\ t - down < 64
    BY <2>4, SMT
  <2> HIDE DEF down
  <2>6. /\ t \in 0 .. ram /\ t \in 0 .. MaxRAM
        /\ basemem \in 0 .. t /\ basemem <= 640
        /\ ram > 1024 => ram - down < 64
    BY <1>2, <2>4, <2>5, SMT
  <2> QED BY <2>6 DEF t, down
<1> QED BY <1>4, <1>6, <1>7

(* The sizes become counts of pages.                                       *)
LEMMA MeasureStep ==
  ASSUME KInv, i386_detect_memory
  PROVE  KInv'
<1>1. /\ UNCHANGED <<image, ram, mem, regs, panicstr>>
      /\ UNCHANGED <<basemem, extmem, ext16mem>>
      /\ pc = "memory" /\ pc' = "panic"
      /\ printed' = Append(printed, "Physical_memory")
      /\ npages' = totalmem \div 4 /\ npages_basemem' = basemem \div 4
  BY DEF i386_detect_memory, Runs, memory
<1>2. /\ totalmem \in 0 .. ram /\ totalmem \in 0 .. MaxRAM
      /\ basemem \in 0 .. totalmem
  BY <1>1, Total
<1>3. npages' \in 0 .. MaxRAM \div 4 /\ npages_basemem' \in 0 .. npages'
  <2> DEFINE t == totalmem
  <2>1. /\ t \in Nat /\ t <= MaxRAM /\ basemem \in Nat /\ basemem <= t
        /\ npages' = t \div 4
    <3>1. ram \in Nat /\ MaxRAM \in Nat
      BY RamSize
    <3>2. t \in 0 .. MaxRAM /\ basemem \in 0 .. t /\ npages' = t \div 4
      BY <1>1, <1>2
    <3> HIDE DEF t
    <3> QED BY <3>1, <3>2, SMT
  <2> HIDE DEF t
  <2>2. /\ t \div 4 \in Nat /\ t \div 4 <= MaxRAM \div 4
        /\ basemem \div 4 \in Nat /\ basemem \div 4 <= t \div 4
    BY <2>1, SMT DEF MaxRAM
  <2>3. MaxRAM \div 4 \in Nat
    BY SMT DEF MaxRAM
  <2> QED BY <1>1, <2>1, <2>2, <2>3
<1>4. printed' \in Seq({"6828_decimal", "Physical_memory", "kernel_panic"})
  BY <1>1 DEF KInv, TypeOK
<1>5. TypeOK'
  BY <1>1, <1>3, <1>4 DEF KInv, TypeOK, regs
<1>6. ReadSoFar'
  <2>1. /\ totalmem' = totalmem /\ BaseSize' = BaseSize
        /\ ExtSize' = ExtSize /\ Ext16Size' = Ext16Size
    BY <1>1, SameSizes
  <2> QED BY <1>1, <2>1 DEF KInv, ReadSoFar, Measures
<1>7. Registers'
  BY <1>1, RegistersKept DEF Compiled
<1>8. ImageKept' /\ ConsoleKept'
  <2>1. console_page' = console_page
    BY <1>1, SameImage
  <2> QED BY <1>1, <2>1 DEF KInv, ImageKept, ConsoleKept, RELOC
<1> QED BY <1>5, <1>6, <1>7, <1>8 DEF KInv

LEMMA PanicStep ==
  ASSUME KInv, _panic
  PROVE  KInv'
<1>1. /\ UNCHANGED <<image, ram, mem, regs>>
      /\ UNCHANGED <<basemem, extmem, ext16mem, npages, npages_basemem>>
      /\ pc = "panic" /\ pc' = "monitor" /\ panicstr' \in {panicstr, "fmt"}
      /\ \/ printed' = printed
         \/ printed' = Append(printed, "kernel_panic")
  BY DEF _panic, Runs, memory, sizes
<1>2. printed' \in Seq({"6828_decimal", "Physical_memory", "kernel_panic"})
  BY <1>1 DEF KInv, TypeOK
<1>3. TypeOK'
  BY <1>1, <1>2 DEF KInv, TypeOK, regs
<1>4. ReadSoFar'
  <2>1. /\ totalmem' = totalmem /\ BaseSize' = BaseSize
        /\ ExtSize' = ExtSize /\ Ext16Size' = Ext16Size
    BY <1>1, SameSizes
  <2> QED BY <1>1, <2>1 DEF KInv, ReadSoFar, Measures
<1>5. Registers'
  BY <1>1, RegistersKept DEF Compiled
<1>6. ImageKept' /\ ConsoleKept'
  <2>1. console_page' = console_page
    BY <1>1, SameImage
  <2> QED BY <1>1, <2>1 DEF KInv, ImageKept, ConsoleKept, RELOC
<1> QED BY <1>3, <1>4, <1>5, <1>6 DEF KInv

LEMMA Kept == KInv /\ UNCHANGED vars => KInv'
<1> SUFFICES ASSUME KInv, UNCHANGED vars PROVE KInv'
  OBVIOUS
<1>1. /\ UNCHANGED <<image, ram, mem, eip, esp, paging, cr3, cr4, panicstr>>
      /\ UNCHANGED <<basemem, extmem, ext16mem, npages, npages_basemem>>
      /\ UNCHANGED <<printed, pc>>
  BY DEF vars, memory, regs, sizes
<1>2. /\ pgdir_page' = pgdir_page /\ bootstacktop' = bootstacktop
      /\ c_code' = c_code /\ console_page' = console_page
  BY <1>1, SameImage
<1>3. TypeOK'
  BY <1>1 DEF KInv, TypeOK
<1>4. /\ totalmem' = totalmem /\ BaseSize' = BaseSize
      /\ ExtSize' = ExtSize /\ Ext16Size' = Ext16Size
  BY <1>1, SameSizes
<1>5. ReadSoFar'
  BY <1>1, <1>4 DEF KInv, ReadSoFar
<1>6. ImageKept' /\ ConsoleKept' /\ Registers'
  BY <1>1, <1>2 DEF KInv, ImageKept, ConsoleKept, Registers, RELOC
<1> QED BY <1>3, <1>5, <1>6 DEF KInv

-----------------------------------------------------------------------------
(* The theorems.                                                           *)

LEMMA KInvHolds == Spec => []KInv
<1>1. KInv /\ [Next]_vars => KInv'
  BY EntryStep, InitStep, NvramStep, MeasureStep, PanicStep, Kept DEF Next
<1> QED BY Entered, <1>1, PTL DEF Spec

(* Every instruction of entry.S and of the C code up to the monitor is     *)
(* fetched from the page it was loaded to and writes only pages the page   *)
(* table in force lets it write.                                           *)
THEOREM NeverFaults == Spec => []NoFault
<1>1. KInv => NoFault
  BY Executes DEF KInv, NoFault
<1> QED BY KInvHolds, <1>1, PTL

(* The console's variables are in place when cprintf is first called, and  *)
(* the clearing of the BSS does not take them away.                        *)
THEOREM ConsoleStays == Spec => []ConsoleKept
<1>1. KInv => ConsoleKept
  BY DEF KInv
<1> QED BY KInvHolds, <1>1, PTL

(* mem_init counts no memory the machine does not have, and misses less    *)
(* than 64K of it.                                                         *)
THEOREM MemoryCounted == Spec => []MemoryMeasured
<1>1. KInv => MemoryMeasured
  <2> SUFFICES ASSUME KInv, pc \in {"panic", "monitor"}
               PROVE  /\ npages * 4 <= ram
                      /\ ram > 1024 => ram - npages * 4 < 64
                      /\ npages_basemem * 4 <= 640
    BY DEF MemoryMeasured
  <2> DEFINE t == totalmem
  <2>1. /\ t \in 0 .. ram /\ basemem \in 0 .. t /\ basemem <= 640
        /\ ram > 1024 => ram - (t \div 4) * 4 < 64
    BY Total
  <2>2. npages = t \div 4 /\ npages_basemem = basemem \div 4
    BY DEF KInv, ReadSoFar
  <2>3. ram \in Nat
    BY RamSize
  <2> HIDE DEF t
  <2>4. (t \div 4) * 4 <= t /\ (basemem \div 4) * 4 <= basemem
    BY <2>1, <2>3, SMT
  <2>5. t \div 4 \in Nat /\ basemem \div 4 \in Nat
    BY <2>1, <2>3, SMT
  <2> QED BY <2>1, <2>2, <2>3, <2>4, <2>5, SMT
<1> QED BY KInvHolds, <1>1, PTL

-----------------------------------------------------------------------------
(* From the reset to the monitor.                                          *)

(* The machine is the loader and then the kernel it jumps to: what holds   *)
(* of each holds of the two, with the controller still at work under the   *)
(* kernel.                                                                 *)
THEOREM PowerOnSafe ==
  PowerOnSpec => [](/\ KernelLoaded /\ A20Enabled
                    /\ NoFault /\ ConsoleKept /\ MemoryMeasured)
<1>1. PowerOnInit => BootInit /\ Init
  BY DEF PowerOnInit
<1>2. [PowerOnNext]_<<bvars, vars>> => [BootNext]_bvars /\ [Next]_vars
  BY DEF PowerOnNext, LoaderStep, KernelStep
<1>3. PowerOnSpec => BootSpec /\ Spec
  BY <1>1, <1>2, PTL DEF PowerOnSpec, BootSpec, Spec
<1> QED
  BY <1>3, A20Correct, LoadCorrect, NeverFaults, ConsoleStays, MemoryCounted,
     PTL
=============================================================================
