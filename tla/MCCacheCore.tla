---------------------------- MODULE MCCacheCore ----------------------------
(* Model values and bounds for checking CacheCore with TLC. *)
EXTENDS CacheCore, TLC

CONSTANTS c1, c2
MCClients == {c1, c2}

MCVersions == {1, 2}
(* version 1 is two bytes long, version 2 one byte (the file shrinks) *)
MCSize == [v \in MCVersions |-> IF v = 1 THEN 2 ELSE 1]
(* version 1 is two bytes long, version 2 three (the file grows) *)
MCGrowSize == [v \in MCVersions |-> v + 1]

Sym == Permutations(MCClients)

(* Cache directory at start-up: nothing; a partial body with a full head; *)
(* a complete body; a body without Content-Length in its head.           *)
Disk(ver, size, head) == [ver |-> ver, size |-> size, head |-> head]
SolidDisks == {Disk(1, -1, "none"), Disk(1, 1, "full"), Disk(1, 2, "full"),
               Disk(1, 2, "nolen")}
VolatileDisks == {Disk(1, 2, "full")}
PartialDisk == {Disk(1, 1, "full")}
EmptyDisk == {Disk(1, -1, "none")}
NoLenDisk == {Disk(1, 2, "nolen")}


=============================================================================
