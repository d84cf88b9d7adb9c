-------------------------------- MODULE Nmea --------------------------------
(***************************************************************************)
(* NMEA sentences made from position and satellite reports                 *)
(* (loc_eng_nmea.cpp).  Both generators run on the engine's message task   *)
(* and share the caches of the engine's data: the satellites used in the   *)
(* fix and the dilutions of precision of the last satellite report, which  *)
(* the next position report is to use once.                                *)
(*                                                                         *)
(* A sentence is a record of the fields that are decided here; numbers     *)
(* that are only printed (time, coordinates, speed) are left out.          *)
(***************************************************************************)
EXTENDS Integers, Sequences, FiniteSets

CONSTANTS Prns,     \* satellite numbers a report may list
          MaxSvs,   \* longest satellite report
          MaxReports  \* bound on reports

VARIABLES sv_used_mask,  \* the set of satellites used in the fix
          dop,           \* pdop, hdop and vdop cached: 0, or the report they came from
          nmea,          \* the sentences the last report gave nmea_cb
          view,          \* the satellites of the last report, if it was one of those
          reports,       \* reports so far
          usedBy         \* per satellite report, the position reports that used its caches

vars == <<sv_used_mask, dop, nmea, view, reports, usedBy>>

GPS_PRN_START == 1
GPS_PRN_END == 32
GLONASS_PRN_START == 65
GLONASS_PRN_END == 96

Views == UNION {[1..n -> Prns] : n \in 0..MaxSvs}
Masks == {{}, {1, 32}, 1..13}
NoMask == [from |-> 0, svs |-> {}]

TypeOK == /\ sv_used_mask \in [from: 0..MaxReports, svs: SUBSET (1..32)]
          /\ dop \in 0..MaxReports /\ reports \in 0..MaxReports
          /\ view \in Views
          /\ usedBy \in [0..MaxReports -> Nat]

Init == /\ sv_used_mask = NoMask /\ dop = 0 /\ nmea = <<>> /\ view = <<>>
        /\ reports = 0 /\ usedBy = [r \in 0..MaxReports |-> 0]

-----------------------------------------------------------------------------
(* The numbers of a finite set in their order: the rank of one in it, and   *)
(* the one of a rank.                                                      *)
Rank(S, n) == Cardinality({m \in S : m <= n})
Nth(S, i) == CHOOSE n \in S : Rank(S, n) = i

(* A count of sentences that is right only if the last one is not full. *)
SentenceCountOneMore(count) == count \div 4 + 1

SentenceCount(count) == count \div 4 + (IF count % 4 # 0 THEN 1 ELSE 0)

(* The loops of loc_eng_nmea_generate_sv over one constellation: each      *)
(* sentence takes up to four satellites of it, going on from svNumber,     *)
(* which is given here after the first k sentences.                        *)
InRange(prn, first, last) == first <= prn /\ prn <= last

Ours(svs, first, last) == {n \in DOMAIN svs : InRange(svs[n], first, last)}

From(ours, place) == {n \in ours : n >= place}

UpToFour(n) == IF n < 4 THEN n ELSE 4

svNumber(svs, ours) ==
  LET after[k \in 0..SentenceCount(Cardinality(ours))] ==
        IF k = 0 THEN 1
        ELSE IF Cardinality(From(ours, after[k - 1])) < 4 THEN Len(svs) + 1
        ELSE Nth(From(ours, after[k - 1]), 4) + 1
  IN  after

Gsv(id, svs, first, last) ==
  LET ours == Ours(svs, first, last)
      count == Cardinality(ours)
      from(k) == From(ours, svNumber(svs, ours)[k - 1])
  IN  IF count = 0
      THEN <<[id |-> id, count |-> 1, number |-> 1, total |-> 0, svs |-> <<>>]>>
      ELSE [k \in 1..SentenceCount(count) |->
              [id |-> id, count |-> SentenceCount(count), number |-> k, total |-> count,
               svs |-> [i \in 1..UpToFour(Cardinality(from(k))) |-> svs[Nth(from(k), i)]]]]

(* loc_eng_nmea_generate_sv: $GPGSV and $GLGSV, then both caches. *)
loc_eng_nmea_generate_sv(svs, used, hasDop) ==
  /\ reports < MaxReports /\ reports' = reports + 1
  /\ nmea' = Gsv("GPGSV", svs, GPS_PRN_START, GPS_PRN_END)
             \o Gsv("GLGSV", svs, GLONASS_PRN_START, GLONASS_PRN_END)
  /\ view' = svs
  /\ sv_used_mask' = [from |-> reports', svs |-> used]
  /\ dop' = IF hasDop THEN reports' ELSE 0
  /\ UNCHANGED usedBy

-----------------------------------------------------------------------------
(* $GPGSA: the satellites used, at most twelve of them, and the fix type. *)
FixType(used) == CASE used = {} -> "1"
                   [] Cardinality(used) \in 1..3 -> "2"
                   [] OTHER -> "3"

First12(used) == {i \in used : Rank(used, i) <= 12}

(* How good the fix is said to be: in $GPVTG and $GPRMC, and in $GPGGA. *)
Mode(hasLatLong, standalone) ==
  CASE ~hasLatLong -> "N" [] hasLatLong /\ standalone -> "A" [] OTHER -> "D"

gpsQuality(hasLatLong, standalone) ==
  CASE ~hasLatLong -> "0" [] hasLatLong /\ standalone -> "1" [] OTHER -> "2"

(* The source of the dilution of precision: the position report, else the  *)
(* cache of the satellite report, else none.                               *)
DopSource(hasDop) == CASE hasDop -> "report" [] ~hasDop /\ dop > 0 -> "cache" [] OTHER -> "none"

(* The four sentences of a position report, each of what its fields say.   *)
GPGSA(used, hasDop) == [id |-> "GPGSA", fix |-> FixType(used), svs |-> First12(used),
                        dop |-> DopSource(hasDop)]
GPVTG(hasLatLong, standalone) == [id |-> "GPVTG", mode |-> Mode(hasLatLong, standalone)]
GPRMC(hasLatLong, standalone) == [id |-> "GPRMC", mode |-> Mode(hasLatLong, standalone)]
GPGGA(used, hasDop, hasLatLong, standalone) ==
  [id |-> "GPGGA", mode |-> gpsQuality(hasLatLong, standalone),
   used |-> Cardinality(used), dop |-> DopSource(hasDop)]

(* "Send blank NMEA reports for non-final fixes" *)
Blank == <<[id |-> "GPGSA", fix |-> "1", svs |-> {}, dop |-> "none"],
           [id |-> "GPVTG", mode |-> "N"], [id |-> "GPRMC", mode |-> "N"],
           [id |-> "GPGGA", mode |-> "0", used |-> 0, dop |-> "none"]>>

(* A position report that leaves the used satellites in the cache. *)
MaskKept(generate_nmea) == sv_used_mask

(* The used satellites are cleared by the report that lists them. *)
MaskAfterPos(generate_nmea) == IF generate_nmea THEN NoMask ELSE sv_used_mask

(* loc_eng_nmea_generate_pos: four sentences, blank ones when the fix is   *)
(* not a final one.  Nothing is sent or cleared when the time stamp cannot *)
(* be converted.                                                           *)
loc_eng_nmea_generate_pos(timeOk, hasDop, hasLatLong, standalone, generate_nmea) ==
  /\ reports < MaxReports /\ reports' = reports + 1
  /\ view' = <<>>
  /\ IF ~timeOk
     THEN nmea' = <<>> /\ UNCHANGED <<sv_used_mask, dop, usedBy>>
     ELSE /\ LET used == sv_used_mask.svs
             IN  nmea' = IF generate_nmea
                         THEN <<GPGSA(used, hasDop), GPVTG(hasLatLong, standalone),
                                GPRMC(hasLatLong, standalone),
                                GPGGA(used, hasDop, hasLatLong, standalone)>>
                         ELSE Blank
          /\ usedBy' = IF generate_nmea /\ sv_used_mask.from > 0
                       THEN [usedBy EXCEPT ![sv_used_mask.from] = @ + 1] ELSE usedBy
          /\ sv_used_mask' = MaskAfterPos(generate_nmea)
          /\ dop' = 0

Next == \/ \E svs \in Views, used \in Masks, hasDop \in BOOLEAN :
             loc_eng_nmea_generate_sv(svs, used, hasDop)
        \/ \E t, d, l, s, g \in BOOLEAN : loc_eng_nmea_generate_pos(t, d, l, s, g)

Spec == Init /\ [][Next]_vars

-----------------------------------------------------------------------------
(* The reference for a satellite report: the $GPGSV (or $GLGSV) sentences  *)
(* are numbered through in the order they are sent, all state the same     *)
(* totals, all but the last list four satellites and none is needlessly    *)
(* there, and the r-th satellite of the constellation is listed in its     *)
(* place, so that each is listed once and in order.                        *)
Complete(id, first, last) ==
  LET at == {k \in DOMAIN nmea : nmea[k].id = id}
      ours == Ours(view, first, last)
      left(k) == Cardinality(ours) - 4 * (Rank(at, k) - 1)
  IN  at # {} =>
        /\ \A k \in at : /\ nmea[k].count = Cardinality(at) /\ nmea[k].number = Rank(at, k)
                         /\ nmea[k].total = Cardinality(ours)
                         /\ Len(nmea[k].svs) = UpToFour(left(k))
                         /\ ours # {} => left(k) > 0
        /\ \A n \in ours : \E k \in at :
             LET r == Rank(ours, n) - 1
             IN  nmea[k].number = (r \div 4) + 1 /\ nmea[k].svs[(r % 4) + 1] = view[n]

(* "Clear the cache so they can't be used again": the satellites of one    *)
(* satellite report are listed as used by at most one position report, and *)
(* a cached dilution of precision is never older than they are.            *)
CachesUsedOnce == /\ \A r \in DOMAIN usedBy : usedBy[r] <= 1
                  /\ dop > 0 => sv_used_mask.from = dop

(* A satellite report lists its satellites in full, and what it leaves for *)
(* the next position report is used once.                                  *)
SentencesAreRight == /\ Complete("GPGSV", GPS_PRN_START, GPS_PRN_END)
                     /\ Complete("GLGSV", GLONASS_PRN_START, GLONASS_PRN_END)
                     /\ CachesUsedOnce

=============================================================================
