---------------------------- MODULE RegionCache ----------------------------
(***************************************************************************)
(* The client's table of routes (transaction/region_cache.cpp).  A table   *)
(* is a revision and a set of descriptors; a descriptor is                 *)
(* [id, start, end, version, conf, peers] with the range start .. end - 1  *)
(* and the peers in order.  Keys are numbers; the end of the key space is  *)
(* a number above all of them.                                             *)
(***************************************************************************)
EXTENDS Naturals, Sequences, FiniteSets, FiniteSetsExt

Contains(d, k) == d.start <= k /\ k < d.end

(* The descriptor that holds the key: none or one. *)
FindKey(table, k) == {d \in table.regions : Contains(d, k)}

(* No gap and no overlap: each range but the last ends where another begins. *)
Contiguous(ds) ==
    /\ \A d, e \in ds : d # e => d.start # e.start
    /\ \A d \in ds : d.start < d.end
    /\ \A d \in ds : d.end # Max({e.end : e \in ds}) => \E e \in ds : e.start = d.end

Intersects(d, lo, hi) == lo < d.end /\ d.start < hi

(* A descriptor may replace one of the same Region only with an epoch that
   does not go back, and goes on when what it stands for changes. *)
EpochAdvances(old, new) ==
    \A n \in new : \A o \in {o \in old : o.id = n.id} :
        /\ n.version >= o.version
        /\ n.conf >= o.conf
        /\ (n.start # o.start \/ n.end # o.end) => n.version > o.version
        /\ n.peers # o.peers => n.conf > o.conf

Replaced(table, ds) ==
    {d \in table.regions : Intersects(d, Min({e.start : e \in ds}), Max({e.end : e \in ds}))}

(* The same without the look at the revision that is published. *)
VerdictUnordered(table, answer) ==
    IF Contiguous(answer.regions) THEN "newer" ELSE "invalid"

(* What ReplaceInterval makes of an answer: "stale" leaves the table as it
   is, "invalid" throws. *)
Verdict(table, answer) ==
    LET old == Replaced(table, answer.regions)
        ends(ds) == <<Min({d.start : d \in ds}), Max({d.end : d \in ds})>> IN
    CASE ~Contiguous(answer.regions) -> "invalid"
      [] Contiguous(answer.regions) /\ answer.rev < table.rev -> "stale"
      [] OTHER -> IF /\ old # {}
                     /\ ends(old) = ends(answer.regions)
                     /\ EpochAdvances(old, answer.regions)
                  THEN "newer" ELSE "invalid"

Publish(table, answer) ==
    [rev |-> answer.rev,
     regions |-> (table.regions \ Replaced(table, answer.regions)) \cup answer.regions]
=============================================================================
