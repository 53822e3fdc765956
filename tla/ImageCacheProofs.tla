--------------------------- MODULE ImageCacheProofs ---------------------------
(***************************************************************************)
(* Theorems about ImageCache, for every finite set of controllers, every   *)
(* set of descriptors and every set of images.                             *)
(***************************************************************************)
EXTENDS ImageCache, FiniteSetTheorems, TLAPS

PCs == {"none", "lookup", "create", "install", "spawn", "run", "release"}

\* The types, without the bound on the user count.
Shape ==
    /\ table \in [Fds -> Images \cup {"foreign", None}]
    /\ entry \in [fd : Fds \cup {None}, users : Nat, identity : Sealed \cup {None}]
    /\ ctl \in [Controllers -> [pc : PCs, file : Fds \cup {None}, shared : BOOLEAN]]
    /\ \A c \in Controllers : ctl[c].file # None <=> c \in Building

\* A controller counts as a user only once it has its image.
Placed == \A c \in Shared : ctl[c].pc \in {"spawn", "run", "release"}

\* What the slot remembers, and what is about to be offered to it, is sealed.
SealedOnly ==
    /\ entry.fd # None => entry.identity \in Sealed
    /\ \A c \in Controllers : ctl[c].pc = "install" => table[ctl[c].file] \in Sealed

\* DescriptorsExact, descriptor by descriptor.
Owned ==
    /\ \A f \in Fds : table[f] \in Images
                        <=> (\E c \in Building : ctl[c].file = f) \/ (Cached /\ f = entry.fd)
    /\ \A c \in Building : Cached => ctl[c].file # entry.fd
    /\ \A c, d \in Building : ctl[c].file = ctl[d].file => c = d

IInv == Shape /\ UsersExact /\ Placed /\ SealedOnly /\ Owned

\* A move changes one controller, and with it two sets.
LEMMA MoveEffect ==
    ASSUME Shape, NEW c \in Controllers, NEW pc \in PCs, NEW file \in Fds \cup {None},
           NEW shared \in BOOLEAN, Move(c, pc, file, shared)
    PROVE  /\ ctl' \in [Controllers -> [pc : PCs, file : Fds \cup {None}, shared : BOOLEAN]]
           /\ ctl'[c] = [pc |-> pc, file |-> file, shared |-> shared]
           /\ \A d \in Controllers \ {c} : ctl'[d] = ctl[d]
           /\ Shared' = IF shared THEN Shared \cup {c} ELSE Shared \ {c}
           /\ Building' = IF pc \in {"install", "spawn"} THEN Building \cup {c}
                          ELSE Building \ {c}
<1>1. /\ ctl' \in [Controllers -> [pc : PCs, file : Fds \cup {None}, shared : BOOLEAN]]
      /\ ctl'[c] = [pc |-> pc, file |-> file, shared |-> shared]
      /\ \A d \in Controllers \ {c} : ctl'[d] = ctl[d]
  BY DEF Move, Shape
<1>2. Shared' = IF shared THEN Shared \cup {c} ELSE Shared \ {c}
  BY <1>1 DEF Shared
<1>3. Building' = IF pc \in {"install", "spawn"} THEN Building \cup {c} ELSE Building \ {c}
  BY <1>1 DEF Building
<1> QED BY <1>1, <1>2, <1>3

\* The users are finitely many controllers; one more or one less counts.
LEMMA CountShared ==
    ASSUME UsersExact, NEW c \in Controllers
    PROVE  /\ Cardinality(Shared) \in Nat
           /\ Cardinality(Shared) <= Cardinality(Controllers)
           /\ c \notin Shared => Cardinality(Shared \cup {c}) = Cardinality(Shared) + 1
           /\ c \in Shared => Cardinality(Shared \ {c}) = Cardinality(Shared) - 1
           /\ c \in Shared => Cardinality(Shared) > 0
<1>1. Shared \subseteq Controllers
  BY DEF Shared
<1>2. IsFiniteSet(Shared) /\ Cardinality(Shared) <= Cardinality(Controllers)
  BY <1>1, FS_Subset, ImageAssumption
<1>3. Cardinality(Shared) \in Nat
  BY <1>2, FS_CardinalityType
<1>4. c \in Shared => Cardinality(Shared) # 0
  BY <1>2, FS_EmptySet
<1>5. c \notin Shared => Cardinality(Shared \cup {c}) = Cardinality(Shared) + 1
  BY <1>2, FS_AddElement
<1>6. c \in Shared => Cardinality(Shared \ {c}) = Cardinality(Shared) - 1
  BY <1>2, FS_RemoveElement
<1> QED BY <1>2, <1>3, <1>4, <1>5, <1>6

\* The invariant says what the model's invariants say.
LEMMA Consequences == IInv => TypeOK /\ DescriptorsExact
<1> SUFFICES ASSUME IInv PROVE TypeOK /\ DescriptorsExact
  OBVIOUS
<1>1. Cardinality(Controllers) \in Nat
  BY FS_CardinalityType, ImageAssumption
<1>2. Cardinality(Shared) \in Nat /\ Cardinality(Shared) <= Cardinality(Controllers)
  <2>1. Shared \subseteq Controllers
    BY DEF Shared
  <2> QED BY <2>1, FS_Subset, FS_CardinalityType, ImageAssumption
<1>3. entry.users \in 0..Cardinality(Controllers)
  BY <1>1, <1>2 DEF IInv, UsersExact
<1>4. TypeOK
  BY <1>3 DEF IInv, Shape, TypeOK, PCs
<1>5. \A c \in Building : ctl[c].file \in Fds
  BY DEF IInv, Shape, Building
<1>6. Cached => entry.fd \in Fds
  BY DEF IInv, Shape, Cached
<1>7. DescriptorsExact
  BY <1>5, <1>6 DEF IInv, Owned, DescriptorsExact
<1> QED BY <1>4, <1>7

\* The empty cache satisfies the invariant.
LEMMA Initially == Init => IInv
<1> SUFFICES ASSUME Init PROVE IInv
  OBVIOUS
<1>1. Shared = {} /\ Building = {}
  BY DEF Init, Shared, Building
<1>2. ~Cached
  BY DEF Init, Cached, NoEntry
<1>3. Shape
  BY <1>1 DEF Init, Shape, NoEntry, PCs
<1>4. UsersExact
  BY <1>1, FS_EmptySet DEF Init, UsersExact, NoEntry
<1>5. Owned
  BY <1>1, <1>2, ImageAssumption DEF Init, Owned, Images
<1> QED BY <1>1, <1>3, <1>4, <1>5 DEF IInv, Placed, SealedOnly, Init, NoEntry

(* Steps that change no set of controllers: one controller moves on.        *)

\* A move that keeps the controller outside the builders and its sharing.
LEMMA StepInPlace ==
    ASSUME IInv, NEW c \in Controllers, NEW pc \in PCs \ {"install", "spawn"},
           ctl[c].pc \notin {"install", "spawn"},
           ctl[c].shared => pc \in {"run", "release"},
           Move(c, pc, None, ctl[c].shared), UNCHANGED <<table, entry>>
    PROVE  IInv'
<1>0. Shape /\ UsersExact /\ Placed /\ SealedOnly /\ Owned
  BY DEF IInv
<1>a. ctl[c].shared \in BOOLEAN /\ pc \in PCs /\ None \in Fds \cup {None}
  BY <1>0 DEF Shape
<1>1. /\ ctl' \in [Controllers -> [pc : PCs, file : Fds \cup {None}, shared : BOOLEAN]]
      /\ ctl'[c] = [pc |-> pc, file |-> None, shared |-> ctl[c].shared]
      /\ \A d \in Controllers \ {c} : ctl'[d] = ctl[d]
      /\ Shared' = IF ctl[c].shared THEN Shared \cup {c} ELSE Shared \ {c}
      /\ Building' = Building \ {c}
  BY <1>0, <1>a, MoveEffect
<1>2. Shared' = Shared /\ Building' = Building
  BY <1>1 DEF Shared, Building
<1>3. Cached' = Cached
  BY DEF Cached
<1>4. Shape'
  BY <1>0, <1>1, <1>2 DEF Shape, Building
<1>5. UsersExact'
  BY <1>0, <1>2 DEF UsersExact
<1>6. Placed'
  BY <1>0, <1>1, <1>2 DEF Placed, Shared
<1>7. SealedOnly'
  BY <1>0, <1>1 DEF SealedOnly
<1>8. Owned'
  BY <1>0, <1>1, <1>2, <1>3 DEF Owned, Building
<1> QED BY <1>4, <1>5, <1>6, <1>7, <1>8 DEF IInv

\* A controller without a descriptor gets one, of an image new to everybody;
\* the slot is left alone.
LEMMA StepCreate ==
    ASSUME IInv, NEW c \in Controllers, Create(c)
    PROVE  IInv'
<1>0. Shape /\ UsersExact /\ Placed /\ SealedOnly /\ Owned
  BY DEF IInv
<1>1. PICK f \in Fds, i \in Images :
         /\ Free(f) /\ New(i) /\ table' = Open(f, i)
         /\ Move(c, AfterCreating(i), f, FALSE)
  BY DEF Create
<1>2. ctl[c].pc = "create" /\ UNCHANGED entry
  BY DEF Create
<1>3. /\ AfterCreating(i) \in {"install", "spawn"} /\ AfterCreating(i) \in PCs
      /\ f \in Fds \cup {None} /\ FALSE \in BOOLEAN
  BY DEF AfterCreating, PCs
<1>4. /\ ctl' \in [Controllers -> [pc : PCs, file : Fds \cup {None}, shared : BOOLEAN]]
      /\ ctl'[c] = [pc |-> AfterCreating(i), file |-> f, shared |-> FALSE]
      /\ \A d \in Controllers \ {c} : ctl'[d] = ctl[d]
      /\ Shared' = Shared \ {c}
      /\ Building' = Building \cup {c}
  BY <1>0, <1>1, <1>3, MoveEffect
<1>5. c \notin Shared /\ c \notin Building
  BY <1>0, <1>2 DEF Placed, Building, Shared
<1>6. table' \in [Fds -> Images \cup {"foreign", None}] /\ table'[f] = i
      /\ \A g \in Fds \ {f} : table'[g] = table[g]
  BY <1>0, <1>1 DEF Shape, Open
<1>7. /\ table[f] = None /\ None \notin Images /\ i # entry.identity
      /\ \A g \in Fds : table[g] # i
  BY <1>1, ImageAssumption DEF Free, New
<1>8. \A d \in Building : ctl[d].file \in Fds /\ ctl[d].file # f
  BY <1>0, <1>7 DEF Shape, Owned, Building
<1>9. Cached => entry.fd \in Fds /\ entry.fd # f
  BY <1>0, <1>7, ImageAssumption DEF Shape, Cached, SealedOnly, Images
<1>10. Cached' = Cached
  BY <1>0, <1>2, <1>6, <1>7, <1>9 DEF Cached, Shape
<1>11. Shape'
  BY <1>0, <1>2, <1>3, <1>4, <1>6, ImageAssumption DEF Shape, Building
<1>12. UsersExact'
  BY <1>0, <1>2, <1>4, <1>5 DEF UsersExact
<1>13. Placed'
  BY <1>0, <1>4, <1>5 DEF Placed, Shared
<1>14. SealedOnly'
  BY <1>0, <1>2, <1>4, <1>6, <1>8 DEF SealedOnly, Building, AfterCreating
<1>15. Owned'
  BY <1>0, <1>2, <1>4, <1>5, <1>6, <1>7, <1>8, <1>9, <1>10 DEF Owned, Building
<1> QED BY <1>11, <1>12, <1>13, <1>14, <1>15 DEF IInv

\* The cached descriptor is duplicated: one more user, one more descriptor.
LEMMA StepHit ==
    ASSUME IInv, NEW c \in Controllers, Hit(c)
    PROVE  IInv'
<1>0. Shape /\ UsersExact /\ Placed /\ SealedOnly /\ Owned
  BY DEF IInv
<1>1. PICK f \in Fds :
         /\ Free(f) /\ table' = Open(f, entry.identity)
         /\ entry' = [entry EXCEPT !.users = @ + 1]
         /\ Move(c, "spawn", f, TRUE)
  BY DEF Hit
<1>2. ctl[c].pc = "lookup" /\ Cached
  BY DEF Hit
<1>3. "spawn" \in PCs /\ f \in Fds \cup {None} /\ TRUE \in BOOLEAN
  BY DEF PCs
<1>4. /\ ctl' \in [Controllers -> [pc : PCs, file : Fds \cup {None}, shared : BOOLEAN]]
      /\ ctl'[c] = [pc |-> "spawn", file |-> f, shared |-> TRUE]
      /\ \A d \in Controllers \ {c} : ctl'[d] = ctl[d]
      /\ Shared' = Shared \cup {c}
      /\ Building' = Building \cup {c}
  BY <1>0, <1>1, <1>3, MoveEffect
<1>5. c \notin Shared /\ c \notin Building
  BY <1>0, <1>2 DEF Placed, Building, Shared
<1>6. table' \in [Fds -> Images \cup {"foreign", None}] /\ table'[f] = entry.identity
      /\ \A g \in Fds \ {f} : table'[g] = table[g]
  BY <1>0, <1>1, <1>2 DEF Shape, Open, SealedOnly, Cached, Images
<1>7. table[f] = None /\ None \notin Images /\ entry.identity \in Images
  BY <1>0, <1>1, <1>2, ImageAssumption DEF Free, SealedOnly, Cached, Images
<1>8. \A d \in Building : ctl[d].file \in Fds /\ ctl[d].file # f
  BY <1>0, <1>7 DEF Shape, Owned, Building
<1>9. entry.fd \in Fds /\ entry.fd # f
  BY <1>0, <1>2, <1>7 DEF Shape, Cached
<1>10. entry.users \in Nat /\ entry'.fd = entry.fd /\ entry'.identity = entry.identity
       /\ entry'.users = entry.users + 1
       /\ entry' \in [fd : Fds \cup {None}, users : Nat, identity : Sealed \cup {None}]
  BY <1>0, <1>1 DEF Shape
<1>11. Cached'
  BY <1>2, <1>6, <1>9, <1>10 DEF Cached
<1>12. Shape'
  BY <1>0, <1>4, <1>6, <1>10, ImageAssumption DEF Shape, Building
<1>13. UsersExact'
  <2>1. Cardinality(Shared') = Cardinality(Shared) + 1
    BY <1>0, <1>4, <1>5, CountShared
  <2> QED BY <1>0, <1>2, <1>10, <2>1 DEF UsersExact, Cached
<1>14. Placed'
  BY <1>0, <1>4 DEF Placed, Shared
<1>15. SealedOnly'
  BY <1>0, <1>4, <1>6, <1>8, <1>10 DEF SealedOnly, Building
<1>16. Owned'
  BY <1>0, <1>2, <1>4, <1>5, <1>6, <1>7, <1>8, <1>9, <1>10, <1>11 DEF Owned, Building
<1> QED BY <1>12, <1>13, <1>14, <1>15, <1>16 DEF IInv

\* The slot is filled: its descriptor is a second one of the new image.
LEMMA StepInstall ==
    ASSUME IInv, NEW c \in Controllers, Install(c)
    PROVE  IInv'
<1>0. Shape /\ UsersExact /\ Placed /\ SealedOnly /\ Owned
  BY DEF IInv
<1>1. PICK f \in Fds :
         /\ Free(f) /\ table' = Open(f, table[ctl[c].file])
         /\ entry' = [fd |-> f, users |-> 1, identity |-> table[ctl[c].file]]
         /\ Move(c, "spawn", ctl[c].file, TRUE)
  BY DEF Install
<1>2. ctl[c].pc = "install" /\ entry.users = 0 /\ entry.fd = None
  BY DEF Install, SlotEmpty
<1>3. "spawn" \in PCs /\ ctl[c].file \in Fds /\ ctl[c].file \in Fds \cup {None}
      /\ TRUE \in BOOLEAN
  BY <1>0, <1>2 DEF PCs, Shape, Building
<1>4. /\ ctl' \in [Controllers -> [pc : PCs, file : Fds \cup {None}, shared : BOOLEAN]]
      /\ ctl'[c] = [pc |-> "spawn", file |-> ctl[c].file, shared |-> TRUE]
      /\ \A d \in Controllers \ {c} : ctl'[d] = ctl[d]
      /\ Shared' = Shared \cup {c}
      /\ Building' = Building \cup {c}
  BY <1>0, <1>1, <1>3, MoveEffect
<1>5. c \notin Shared /\ c \in Building /\ Building' = Building
  BY <1>0, <1>2, <1>4 DEF Placed, Building, Shared
<1>6. table[ctl[c].file] \in Sealed /\ table[ctl[c].file] \in Images
  BY <1>0, <1>2 DEF SealedOnly, Images
<1>7. table' \in [Fds -> Images \cup {"foreign", None}] /\ table'[f] = table[ctl[c].file]
      /\ \A g \in Fds \ {f} : table'[g] = table[g]
  BY <1>0, <1>1, <1>6 DEF Shape, Open
<1>8. table[f] = None /\ None \notin Images
  BY <1>1, ImageAssumption DEF Free
<1>9. \A d \in Building : ctl[d].file \in Fds /\ ctl[d].file # f
  BY <1>0, <1>8 DEF Shape, Owned, Building
<1>10. entry'.fd = f /\ entry'.users = 1 /\ entry'.identity = table[ctl[c].file]
       /\ entry' \in [fd : Fds \cup {None}, users : Nat, identity : Sealed \cup {None}]
  BY <1>1, <1>6
<1>11. Cached' /\ ~Cached
  BY <1>2, <1>7, <1>10, ImageAssumption DEF Cached
<1>12. Shape'
  BY <1>0, <1>4, <1>5, <1>7, <1>10 DEF Shape, Building
<1>13. UsersExact'
  <2>1. Cardinality(Shared') = Cardinality(Shared) + 1
    BY <1>0, <1>4, <1>5, CountShared
  <2>2. Cardinality(Shared) = 0
    BY <1>0, <1>2 DEF UsersExact
  <2>3. f # None
    BY ImageAssumption
  <2> QED BY <1>10, <2>1, <2>2, <2>3 DEF UsersExact
<1>14. Placed'
  BY <1>0, <1>4 DEF Placed, Shared
<1>15. SealedOnly'
  BY <1>0, <1>4, <1>6, <1>7, <1>9, <1>10 DEF SealedOnly, Building
<1>16. Owned'
  BY <1>0, <1>4, <1>5, <1>6, <1>7, <1>8, <1>9, <1>10, <1>11 DEF Owned, Building
<1> QED BY <1>12, <1>13, <1>14, <1>15, <1>16 DEF IInv

\* The image built in vain is exchanged for the cached one.
LEMMA StepAdopt ==
    ASSUME IInv, NEW c \in Controllers, Adopt(c)
    PROVE  IInv'
<1>0. Shape /\ UsersExact /\ Placed /\ SealedOnly /\ Owned
  BY DEF IInv
<1>1. PICK f \in Fds :
         /\ Free(f)
         /\ table' = [Open(f, entry.identity) EXCEPT ![ctl[c].file] = None]
         /\ Move(c, "spawn", f, TRUE)
  BY DEF Adopt
<1>2. ctl[c].pc = "install" /\ Cached /\ entry' = [entry EXCEPT !.users = @ + 1]
  BY DEF Adopt
<1>3. "spawn" \in PCs /\ f \in Fds \cup {None} /\ TRUE \in BOOLEAN
  BY DEF PCs
<1>4. /\ ctl' \in [Controllers -> [pc : PCs, file : Fds \cup {None}, shared : BOOLEAN]]
      /\ ctl'[c] = [pc |-> "spawn", file |-> f, shared |-> TRUE]
      /\ \A d \in Controllers \ {c} : ctl'[d] = ctl[d]
      /\ Shared' = Shared \cup {c}
      /\ Building' = Building \cup {c}
  BY <1>0, <1>1, <1>3, MoveEffect
<1>5. c \notin Shared /\ c \in Building /\ Building' = Building
  BY <1>0, <1>2, <1>4 DEF Placed, Building, Shared
<1>6. table[f] = None /\ None \notin Images /\ entry.identity \in Images
  BY <1>0, <1>1, <1>2, ImageAssumption DEF Free, SealedOnly, Cached, Images
<1>7. \A d \in Building : ctl[d].file \in Fds /\ ctl[d].file # f
  BY <1>0, <1>6 DEF Shape, Owned, Building
<1>8. entry.fd \in Fds /\ entry.fd # f /\ ctl[c].file # entry.fd
  BY <1>0, <1>2, <1>5, <1>6 DEF Shape, Cached, Owned
<1>9. /\ table' \in [Fds -> Images \cup {"foreign", None}]
      /\ table'[f] = entry.identity /\ table'[ctl[c].file] = None
      /\ \A g \in Fds \ {f, ctl[c].file} : table'[g] = table[g]
  BY <1>0, <1>1, <1>5, <1>6, <1>7 DEF Shape, Open
<1>10. entry.users \in Nat /\ entry'.fd = entry.fd /\ entry'.identity = entry.identity
       /\ entry'.users = entry.users + 1
       /\ entry' \in [fd : Fds \cup {None}, users : Nat, identity : Sealed \cup {None}]
  BY <1>0, <1>2 DEF Shape
<1>11. Cached'
  BY <1>2, <1>8, <1>9, <1>10 DEF Cached
<1>12. Shape'
  BY <1>0, <1>4, <1>5, <1>9, <1>10, ImageAssumption DEF Shape, Building
<1>13. UsersExact'
  <2>1. Cardinality(Shared') = Cardinality(Shared) + 1
    BY <1>0, <1>4, <1>5, CountShared
  <2> QED BY <1>0, <1>2, <1>10, <2>1 DEF UsersExact, Cached
<1>14. Placed'
  BY <1>0, <1>4 DEF Placed, Shared
<1>15. \A d \in Building : d # c => ctl[d].file # ctl[c].file
  BY <1>0, <1>5 DEF Owned
<1>16. SealedOnly'
  BY <1>0, <1>4, <1>7, <1>9, <1>10, <1>15 DEF SealedOnly, Building
<1>17. Owned'
  BY <1>0, <1>2, <1>4, <1>5, <1>6, <1>7, <1>8, <1>9, <1>10, <1>11, <1>15
  DEF Owned, Building
<1> QED BY <1>12, <1>13, <1>14, <1>16, <1>17 DEF IInv

\* The controller keeps its image to itself.
LEMMA StepKeepPrivate ==
    ASSUME IInv, NEW c \in Controllers, KeepPrivate(c)
    PROVE  IInv'
<1>0. Shape /\ UsersExact /\ Placed /\ SealedOnly /\ Owned
  BY DEF IInv
<1>1. /\ ctl[c].pc = "install" /\ Move(c, "spawn", ctl[c].file, FALSE)
      /\ UNCHANGED <<table, entry>>
  BY DEF KeepPrivate
<1>2. "spawn" \in PCs /\ ctl[c].file \in Fds \cup {None} /\ FALSE \in BOOLEAN
  BY <1>0 DEF PCs, Shape
<1>3. /\ ctl' \in [Controllers -> [pc : PCs, file : Fds \cup {None}, shared : BOOLEAN]]
      /\ ctl'[c] = [pc |-> "spawn", file |-> ctl[c].file, shared |-> FALSE]
      /\ \A d \in Controllers \ {c} : ctl'[d] = ctl[d]
      /\ Shared' = Shared \ {c}
      /\ Building' = Building \cup {c}
  BY <1>0, <1>1, <1>2, MoveEffect
<1>4. Shared' = Shared /\ Building' = Building /\ Cached' = Cached
  BY <1>0, <1>1, <1>3 DEF Placed, Building, Shared, Cached
<1>5. Shape'
  BY <1>0, <1>1, <1>3, <1>4 DEF Shape, Building
<1>6. UsersExact' /\ Placed'
  BY <1>0, <1>1, <1>3, <1>4 DEF UsersExact, Placed, Shared
<1>7. SealedOnly'
  BY <1>0, <1>1, <1>3 DEF SealedOnly
<1>8. Owned'
  BY <1>0, <1>1, <1>3, <1>4 DEF Owned, Building
<1> QED BY <1>5, <1>6, <1>7, <1>8 DEF IInv

\* The own descriptor is closed; nobody else's is.
LEMMA StepSpawned ==
    ASSUME IInv, NEW c \in Controllers, Spawned(c)
    PROVE  IInv'
<1>0. Shape /\ UsersExact /\ Placed /\ SealedOnly /\ Owned
  BY DEF IInv
<1>1. PICK pc \in {"run", "release"} : Move(c, pc, None, ctl[c].shared)
  BY DEF Spawned
<1>2. ctl[c].pc = "spawn" /\ table' = Open(ctl[c].file, None) /\ UNCHANGED entry
  BY DEF Spawned
<1>3. pc \in PCs /\ None \in Fds \cup {None} /\ ctl[c].shared \in BOOLEAN
      /\ pc \notin {"install", "spawn"}
  BY <1>0 DEF PCs, Shape
<1>4. /\ ctl' \in [Controllers -> [pc : PCs, file : Fds \cup {None}, shared : BOOLEAN]]
      /\ ctl'[c] = [pc |-> pc, file |-> None, shared |-> ctl[c].shared]
      /\ \A d \in Controllers \ {c} : ctl'[d] = ctl[d]
      /\ Shared' = IF ctl[c].shared THEN Shared \cup {c} ELSE Shared \ {c}
      /\ Building' = Building \ {c}
  BY <1>0, <1>1, <1>3, MoveEffect
<1>5. Shared' = Shared /\ c \in Building /\ ctl[c].file \in Fds
  BY <1>0, <1>2, <1>4 DEF Shared, Building, Shape
<1>6. /\ table' \in [Fds -> Images \cup {"foreign", None}]
      /\ table'[ctl[c].file] = None
      /\ \A g \in Fds \ {ctl[c].file} : table'[g] = table[g]
  BY <1>0, <1>2, <1>5 DEF Shape, Open
<1>7. \A d \in Building : ctl[d].file \in Fds /\ (d # c => ctl[d].file # ctl[c].file)
  BY <1>0, <1>5 DEF Shape, Owned, Building
<1>8. Cached' = Cached
  <2>1. CASE entry.fd = ctl[c].file
    <3>1. ~Cached
      BY <1>0, <1>5, <2>1 DEF Owned
    <3>2. entry.identity \in Images /\ table'[entry.fd] = None
      BY <1>0, <1>5, <1>6, <2>1, ImageAssumption DEF SealedOnly, Images
    <3>3. ~Cached'
      BY <1>2, <3>2, ImageAssumption DEF Cached
    <3> QED BY <3>1, <3>3 DEF Cached
  <2>2. CASE entry.fd = None
    BY <1>2, <2>2 DEF Cached
  <2>3. CASE entry.fd \in Fds \ {ctl[c].file}
    BY <1>2, <1>6, <2>3 DEF Cached
  <2> QED BY <1>0, <2>1, <2>2, <2>3 DEF Shape
<1>9. Shape'
  BY <1>0, <1>2, <1>3, <1>4, <1>6 DEF Shape, Building
<1>10. UsersExact'
  BY <1>0, <1>2, <1>5 DEF UsersExact
<1>15. Placed'
  BY <1>0, <1>4, <1>5 DEF Placed, Shared
<1>11. SealedOnly'
  BY <1>0, <1>2, <1>3, <1>4, <1>6, <1>7 DEF SealedOnly, Building
<1>12. None \notin Images
  BY ImageAssumption
<1>13. Cached => entry.fd \in Fds /\ entry.fd # ctl[c].file
  BY <1>0, <1>5 DEF Owned, Cached, Shape
<1>14. Owned'
  BY <1>0, <1>2, <1>3, <1>4, <1>5, <1>6, <1>7, <1>8, <1>12, <1>13 DEF Owned, Building
<1> QED BY <1>9, <1>10, <1>11, <1>14, <1>15 DEF IInv

\* The last user empties the slot, any other only leaves the count.
LEMMA StepRelease ==
    ASSUME IInv, NEW c \in Controllers, Release(c)
    PROVE  IInv'
<1>0. Shape /\ UsersExact /\ Placed /\ SealedOnly /\ Owned
  BY DEF IInv
<1>1. ctl[c].pc = "release" /\ Move(c, "none", None, FALSE)
  BY DEF Release
<1>2. /\ "none" \in PCs /\ None \in Fds \cup {None} /\ FALSE \in BOOLEAN
      /\ "none" \notin {"install", "spawn"}
  BY DEF PCs
<1>3. /\ ctl' \in [Controllers -> [pc : PCs, file : Fds \cup {None}, shared : BOOLEAN]]
      /\ ctl'[c] = [pc |-> "none", file |-> None, shared |-> FALSE]
      /\ \A d \in Controllers \ {c} : ctl'[d] = ctl[d]
      /\ Shared' = Shared \ {c}
      /\ Building' = Building \ {c}
  <2>1. /\ ctl' \in [Controllers -> [pc : PCs, file : Fds \cup {None}, shared : BOOLEAN]]
        /\ ctl'[c] = [pc |-> "none", file |-> None, shared |-> FALSE]
        /\ \A d \in Controllers \ {c} : ctl'[d] = ctl[d]
    BY <1>0, <1>1, <1>2 DEF Move, Shape
  <2>2. Shared' = Shared \ {c}
    BY <2>1 DEF Shared
  <2>3. Building' = Building \ {c}
    BY <2>1 DEF Building
  <2> QED BY <2>1, <2>2, <2>3
<1>4. Building' = Building /\ c \notin Building
  BY <1>1, <1>3 DEF Building
<1>5. \A d \in Building : ctl'[d] = ctl[d] /\ ctl[d].file \in Fds
  BY <1>0, <1>3, <1>4 DEF Shape, Building
<1>6. ctl[c].file = None /\ (c \in Shared <=> ctl[c].shared)
  BY <1>0, <1>4 DEF Shape, Shared
<1>7. Placed'
  BY <1>0, <1>3 DEF Placed, Shared
<1>8. CASE ctl[c].shared /\ entry.users = 1
  <2>1. table' = AfterLastUser /\ entry' = NoEntry
    BY <1>8 DEF Release
  <2>2. /\ entry'.fd = None /\ entry'.users = 0 /\ ~Cached'
        /\ entry' \in [fd : Fds \cup {None}, users : Nat, identity : Sealed \cup {None}]
    BY <2>1 DEF NoEntry, Cached
  <2>3. Cached => entry.fd \in Fds
    BY <1>0 DEF Cached, Shape
  <2>4. /\ table' \in [Fds -> Images \cup {"foreign", None}]
        /\ Cached => table'[entry.fd] = None
        /\ \A g \in Fds : ~(Cached /\ g = entry.fd) => table'[g] = table[g]
    BY <1>0, <2>1, <2>3 DEF AfterLastUser, Open, Shape
  <2>5. Shape'
    BY <1>0, <1>3, <1>4, <1>6, <2>2, <2>4 DEF Shape
  <2>6. UsersExact'
    BY <1>0, <1>3, <1>6, <1>8, <2>2, CountShared DEF UsersExact
  <2>7. \A d \in Building : table'[ctl[d].file] = table[ctl[d].file]
    BY <1>0, <1>5, <2>4 DEF Owned
  <2>8. SealedOnly'
    BY <1>0, <1>3, <2>2, <2>7 DEF SealedOnly, Building
  <2>9. None \notin Images
    BY ImageAssumption
  <2>10. Owned'
    BY <1>0, <1>4, <1>5, <2>2, <2>3, <2>4, <2>9 DEF Owned
  <2> QED BY <1>7, <2>5, <2>6, <2>8, <2>10 DEF IInv
<1>9. CASE ~(ctl[c].shared /\ entry.users = 1)
  <2>1. /\ UNCHANGED table
        /\ entry' = IF ctl[c].shared /\ entry.users > 0
                    THEN [entry EXCEPT !.users = @ - 1] ELSE entry
    BY <1>9 DEF Release
  <2>2. ctl[c].shared => entry.users \in Nat /\ entry.users > 1
    <3>1. ctl[c].shared => entry.users > 0
      BY <1>0, <1>6, CountShared DEF UsersExact
    <3> QED BY <1>0, <1>9, <3>1 DEF Shape
  <2>3. /\ entry'.fd = entry.fd /\ entry'.identity = entry.identity
        /\ entry'.users = IF ctl[c].shared THEN entry.users - 1 ELSE entry.users
        /\ entry' \in [fd : Fds \cup {None}, users : Nat, identity : Sealed \cup {None}]
    BY <1>0, <2>1, <2>2 DEF Shape
  <2>4. Cached' = Cached
    BY <1>0, <2>1, <2>2, <2>3 DEF Cached, Shape
  <2>5. Shape'
    BY <1>0, <1>3, <1>4, <1>6, <2>1, <2>3 DEF Shape
  <2>6. UsersExact'
    <3>1. CASE ctl[c].shared
      BY <1>0, <1>3, <1>6, <2>2, <2>3, <3>1, CountShared DEF UsersExact
    <3>2. CASE ~ctl[c].shared
      <4>1. Shared' = Shared
        BY <1>3, <1>6, <3>2
      <4> QED BY <1>0, <2>3, <3>2, <4>1 DEF UsersExact
    <3> QED BY <3>1, <3>2
  <2>7. SealedOnly'
    BY <1>0, <1>3, <2>1, <2>3 DEF SealedOnly
  <2>8. Owned'
    BY <1>0, <1>4, <1>5, <2>1, <2>3, <2>4 DEF Owned
  <2> QED BY <1>7, <2>5, <2>6, <2>7, <2>8 DEF IInv
<1> QED BY <1>8, <1>9

\* The embedding program changes an entry of the table that is no image of a
\* builder, to something that is no image.
LEMMA StepForeign ==
    ASSUME IInv, ForeignOpens \/ ForeignCloses
    PROVE  IInv'
<1>0. Shape /\ UsersExact /\ Placed /\ SealedOnly /\ Owned
  BY DEF IInv
<1>1. PICK f \in Fds, i \in {"foreign", None} :
         /\ table' = Open(f, i) /\ UNCHANGED <<entry, ctl>>
         /\ table[f] \in {"foreign", None} \/ (Cached /\ f = entry.fd)
  BY DEF ForeignOpens, ForeignCloses, Free
<1>2. i \notin Images
  BY ImageAssumption
<1>3. /\ table' \in [Fds -> Images \cup {"foreign", None}] /\ table'[f] = i
      /\ \A g \in Fds \ {f} : table'[g] = table[g]
  BY <1>0, <1>1 DEF Shape, Open
<1>4. Building' = Building /\ Shared' = Shared
  BY <1>1 DEF Building, Shared
<1>5. \A d \in Building : ctl[d].file \in Fds /\ ctl[d].file # f
  BY <1>0, <1>1, ImageAssumption DEF Shape, Owned, Building
<1>6. Cached' <=> Cached /\ f # entry.fd
  <2>1. entry.fd # None => entry.fd \in Fds /\ entry.identity \in Images
    BY <1>0 DEF Shape, SealedOnly, Images
  <2> QED BY <1>1, <1>2, <1>3, <2>1 DEF Cached
<1>7. Shape'
  BY <1>0, <1>1, <1>3, <1>4 DEF Shape
<1>8. UsersExact'
  BY <1>0, <1>1, <1>4 DEF UsersExact
<1>9. Placed'
  BY <1>0, <1>1, <1>4 DEF Placed
<1>10. SealedOnly'
  BY <1>0, <1>1, <1>3, <1>5 DEF SealedOnly, Building
<1>11. Owned'
  <2>1. \A d \in Building : Cached' => ctl'[d].file # entry'.fd
    BY <1>0, <1>1, <1>6 DEF Owned
  <2>2. \A c, d \in Building : ctl'[c].file = ctl'[d].file => c = d
    BY <1>0, <1>1 DEF Owned
  <2>3. ASSUME NEW g \in Fds
        PROVE  table'[g] \in Images
                 <=> (\E d \in Building : ctl'[d].file = g) \/ (Cached' /\ g = entry'.fd)
    <3>1. CASE g = f
      BY <1>1, <1>2, <1>3, <1>5, <1>6, <3>1
    <3>2. CASE g # f
      BY <1>0, <1>1, <1>3, <1>6, <3>2 DEF Owned
    <3> QED BY <3>1, <3>2
  <2> QED BY <1>4, <2>1, <2>2, <2>3 DEF Owned
<1> QED BY <1>7, <1>8, <1>9, <1>10, <1>11 DEF IInv

\* Every step of a controller or of the embedding program preserves it.
LEMMA Inductive == IInv /\ [Next]_vars => IInv'
<1> SUFFICES ASSUME IInv, [Next]_vars PROVE IInv'
  OBVIOUS
<1>1. ASSUME NEW c \in Controllers, Start(c) \/ Miss(c) \/ CreateFails(c) PROVE IInv'
  <2>1. PICK pc \in {"lookup", "create", "release"} :
           /\ ctl[c].pc \in {"none", "lookup", "create"}
           /\ Move(c, pc, None, FALSE) /\ UNCHANGED <<table, entry>>
    BY <1>1 DEF Start, Miss, CreateFails
  <2>2. ctl[c].shared = FALSE
    BY <2>1 DEF IInv, Shape, Placed, Shared
  <2>3. pc \in PCs \ {"install", "spawn"} /\ ctl[c].pc \notin {"install", "spawn"}
    BY <2>1 DEF PCs
  <2> QED BY <2>1, <2>2, <2>3, StepInPlace
<1>2. ASSUME NEW c \in Controllers, Reaped(c) PROVE IInv'
  <2>1. /\ "release" \in PCs \ {"install", "spawn"} /\ ctl[c].pc \notin {"install", "spawn"}
        /\ "release" \in {"run", "release"}
        /\ Move(c, "release", None, ctl[c].shared) /\ UNCHANGED <<table, entry>>
    BY <1>2 DEF Reaped, PCs
  <2> QED BY <2>1, StepInPlace
<1>3. ASSUME UNCHANGED vars PROVE IInv'
  BY <1>3 DEF vars, IInv, Shape, UsersExact, Placed, SealedOnly, Owned, Shared, Building, Cached
<1> QED BY <1>1, <1>2, <1>3, StepHit, StepCreate, StepInstall, StepAdopt, StepKeepPrivate,
           StepSpawned, StepRelease, StepForeign DEF Next, ControllerStep

\* The invariant holds in every reachable state.
LEMMA Invariance == Spec => []IInv
BY Initially, Inductive, PTL DEF Spec

\* Types, and: only a sealed image is ever shared, for any number of
\* controllers, descriptors and images.
THEOREM TypeCorrect == Spec => []TypeOK
BY Invariance, Consequences, PTL

\* No interleaving of acquire_image and release_image loses or invents a user.
THEOREM UserCountIsExact == Spec => []UsersExact
<1>1. IInv => UsersExact
  BY DEF IInv
<1> QED BY <1>1, Invariance, PTL

\* No descriptor of an image leaks, is owned twice, or is missing.
THEOREM DescriptorsAreExact == Spec => []DescriptorsExact
BY Invariance, Consequences, PTL

-----------------------------------------------------------------------------

ForeignStep == \A f \in Fds : table[f] = "foreign" /\ table'[f] # "foreign" => ctl' = ctl

\* A controller closes only its own descriptor and the cached one while that
\* still is the image; it opens only free numbers.
LEMMA StepSparesForeign == IInv /\ [Next]_vars => ForeignStep
<1> SUFFICES ASSUME IInv, [Next]_vars, ctl' # ctl, NEW f \in Fds, table[f] = "foreign"
             PROVE  table'[f] = "foreign"
  BY DEF ForeignStep
<1>0. /\ table \in [Fds -> Images \cup {"foreign", None}]
      /\ "foreign" \notin Images /\ "foreign" # None
  BY ImageAssumption DEF IInv, Shape
<1>1. \A c \in Building : ctl[c].file \in Fds /\ ctl[c].file # f
  BY <1>0 DEF IInv, Shape, Owned, Building
<1>2. Cached => entry.fd \in Fds /\ entry.fd # f
  BY <1>0 DEF IInv, Shape, SealedOnly, Cached, Images
<1>3. ASSUME NEW g \in Fds, NEW i, Free(g), table' = Open(g, i) PROVE table'[f] = "foreign"
  BY <1>0, <1>3 DEF Free, Open
<1>4. PICK c \in Controllers : ControllerStep(c)
  BY DEF Next, ForeignOpens, ForeignCloses, vars
<1>5. CASE Start(c) \/ Miss(c) \/ CreateFails(c) \/ KeepPrivate(c) \/ Reaped(c)
  BY <1>5 DEF Start, Miss, CreateFails, KeepPrivate, Reaped
<1>6. CASE Hit(c) \/ Create(c) \/ Install(c)
  BY <1>3, <1>6 DEF Hit, Create, Install
<1>7. CASE Adopt(c)
  <2>1. c \in Building
    BY <1>7 DEF Adopt, Building
  <2> QED BY <1>0, <1>1, <1>7, <2>1 DEF Adopt, Free, Open
<1>8. CASE Spawned(c)
  <2>1. c \in Building
    BY <1>8 DEF Spawned, Building
  <2> QED BY <1>0, <1>1, <1>8, <2>1 DEF Spawned, Open
<1>9. CASE Release(c)
  BY <1>0, <1>2, <1>9 DEF Release, AfterLastUser, Open
<1> QED BY <1>4, <1>5, <1>6, <1>7, <1>8, <1>9 DEF ControllerStep

\* A descriptor of the embedding program is never closed by the cache.
THEOREM ForeignDescriptorsAreSpared == Spec => ForeignUntouched
<1> QED BY Invariance, StepSparesForeign, PTL DEF Spec, ForeignUntouched, ForeignStep

=============================================================================
