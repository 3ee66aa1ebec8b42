-------------------------- MODULE BootstrapProofs --------------------------
(***************************************************************************)
(* Proofs about Bootstrap for any number of processes, migration files and *)
(* attempts, in any environment and with every fault.  The unique address  *)
(* of the demo user lets one process past it (OneSeeder), so whoever finds *)
(* it taken can rely on that process, on the callers or on a fault to      *)
(* explain the state of the shop (Explained).                              *)
(***************************************************************************)
EXTENDS Bootstrap, TLAPS

\* An empty database and stopped processes satisfy the invariant.
LEMMA InitIndInv == Init => IndInv
<1> SUFFICES ASSUME Init PROVE IndInv
  OBVIOUS
<1> USE BootAssumption DEF Init
<1>1. TypeOK
  <2>1. file \in [Processes -> 1..(Files + 1)] /\ schema \in 0..Files
    OBVIOUS
  <2>2. tries \in [Processes -> 0..Attempts]
    OBVIOUS
  <2>3. QED
    BY <2>1, <2>2 DEF TypeOK, States, Owners
<1>2. Migrating /\ OneSeeder /\ Explained /\ ServesReady
  BY DEF Migrating, OneSeeder, Explained, ServesReady, Seeding
<1>3. QED
  BY <1>1, <1>2 DEF IndInv

\* A process that starts has everything before it.
LEMMA StartInd ==
    ASSUME IndInv, NEW p \in Processes, Start(p)
    PROVE  IndInv'
<1> USE IndInv, Start(p) DEF IndInv, Start, Goto
<1>1. TypeOK'
  BY BootAssumption DEF TypeOK, States, Seeding, Owners, process, names
<1>2. Migrating'
  BY BootAssumption DEF TypeOK, Migrating, Seeding, process, names
<1>3. OneSeeder'
  BY DEF TypeOK, OneSeeder, process, names
<1>4. Explained'
  BY DEF TypeOK, OneSeeder, Explained, ShopSettled, Owners, process, names
<1>5. ServesReady'
  BY BootAssumption DEF TypeOK, Migrating, OneSeeder, Explained, ShopSettled,
     ServesReady, Owners, Seeding, process, names
<1>6. QED
  BY <1>1, <1>2, <1>3, <1>4, <1>5

\* A ping changes nothing but the process.
LEMMA PingInd ==
    ASSUME IndInv, NEW p \in Processes, Ping(p)
    PROVE  IndInv'
<1> USE IndInv, Ping(p) DEF IndInv, Ping, Goto, Succeeds, Breaks
<1>1. TypeOK'
  BY BootAssumption DEF TypeOK, Migrating, States, Seeding, Owners, process, names
<1>2. Migrating'
  BY BootAssumption DEF TypeOK, Migrating, Seeding, process, names
<1>3. OneSeeder'
  BY DEF TypeOK, OneSeeder, process, names
<1>4. Explained'
  BY DEF TypeOK, OneSeeder, Explained, ShopSettled, Owners, process, names
<1>5. ServesReady'
  BY BootAssumption DEF TypeOK, Migrating, OneSeeder, Explained, ShopSettled,
     ServesReady, Owners, Seeding, process, names
<1>6. QED
  BY <1>1, <1>2, <1>3, <1>4, <1>5

\* A file adds to the schema; processes that lose the race are down.
LEMMA MigrateInd ==
    ASSUME IndInv, NEW p \in Processes, Migrate(p)
    PROVE  IndInv'
<1> USE IndInv, Migrate(p) DEF IndInv, Migrate, Goto, Succeeds, Breaks, Later
<1>1. TypeOK'
  BY BootAssumption DEF TypeOK, States, Seeding, Owners, process, names
<1>2. Migrating'
  BY BootAssumption DEF TypeOK, Migrating, Seeding, process, names
<1>3. OneSeeder'
  BY DEF TypeOK, OneSeeder, process, names
<1>4. Explained'
  BY DEF TypeOK, OneSeeder, Explained, ShopSettled, Owners, process, names
<1>5. ServesReady'
  BY BootAssumption DEF TypeOK, Migrating, OneSeeder, Explained, ShopSettled,
     ServesReady, Owners, Seeding, process, names
<1>6. QED
  BY <1>1, <1>2, <1>3, <1>4, <1>5

\* After the last file the schema is complete.
LEMMA MigratedInd ==
    ASSUME IndInv, NEW p \in Processes, Migrated(p)
    PROVE  IndInv'
<1> USE IndInv, Migrated(p) DEF IndInv, Migrated, Goto
<1>1. TypeOK'
  BY BootAssumption DEF TypeOK, States, Seeding, Owners, process, names
<1>2. Migrating'
  BY BootAssumption DEF TypeOK, Migrating, Seeding, process, names
<1>3. OneSeeder'
  BY DEF TypeOK, OneSeeder, process, names
<1>4. Explained'
  BY DEF TypeOK, OneSeeder, Explained, ShopSettled, Owners, process, names
<1>5. ServesReady'
  BY BootAssumption DEF TypeOK, Migrating, OneSeeder, Explained, ShopSettled,
     ServesReady, Owners, Seeding, process, names
<1>6. QED
  BY <1>1, <1>2, <1>3, <1>4, <1>5

\* A vendor that is counted is the seed's or a caller's.
LEMMA CountInd ==
    ASSUME IndInv, NEW p \in Processes, Count(p)
    PROVE  IndInv'
<1> USE IndInv, Count(p) DEF IndInv, Count, Goto, Succeeds, Breaks
<1>1. TypeOK'
  BY BootAssumption DEF TypeOK, States, Seeding, Owners, process, names
<1>2. Migrating'
  BY BootAssumption DEF TypeOK, Migrating, Seeding, process, names
<1>3. OneSeeder'
  BY DEF TypeOK, OneSeeder, process, names
<1>4. Explained'
  BY DEF TypeOK, OneSeeder, Explained, ShopSettled, Owners, process, names
<1>5. ServesReady'
  BY BootAssumption DEF TypeOK, Migrating, OneSeeder, Explained, ShopSettled,
     ServesReady, Owners, Seeding, process, names
<1>6. QED
  BY <1>1, <1>2, <1>3, <1>4, <1>5

\* Whoever inserts the address is the only seeder; whoever finds it taken
\* relies on its owner.
LEMMA InsertUserInd ==
    ASSUME IndInv, NEW p \in Processes, InsertUser(p)
    PROVE  IndInv'
<1> USE IndInv, InsertUser(p) DEF IndInv, InsertUser, Goto, Succeeds, Breaks, SeedFails, WriteUser
<1>1. TypeOK'
  BY BootAssumption DEF TypeOK, States, Seeding, Owners, process, names
<1>2. Migrating'
  BY BootAssumption DEF TypeOK, Migrating, Seeding, process, names
<1>3. OneSeeder'
  BY DEF TypeOK, OneSeeder, process, names
<1>4. Explained'
  BY DEF TypeOK, OneSeeder, Explained, ShopSettled, Owners, process, names
<1>5. ServesReady'
  BY BootAssumption DEF TypeOK, Migrating, OneSeeder, Explained, ShopSettled,
     ServesReady, Owners, Seeding, process, names
<1>6. QED
  BY <1>1, <1>2, <1>3, <1>4, <1>5

\* The seeder finds the slug free or a caller's.
LEMMA InsertVendorInd ==
    ASSUME IndInv, NEW p \in Processes, InsertVendor(p)
    PROVE  IndInv'
<1> USE IndInv, InsertVendor(p) DEF IndInv, InsertVendor, Goto, Succeeds, Breaks, SeedFails, WriteVendor
<1>1. TypeOK'
  BY BootAssumption DEF TypeOK, States, Seeding, Owners, process, names
<1>2. Migrating'
  BY BootAssumption DEF TypeOK, Migrating, Seeding, process, names
<1>3. OneSeeder'
  BY DEF TypeOK, OneSeeder, process, names
<1>4. Explained'
  BY DEF TypeOK, OneSeeder, Explained, ShopSettled, Owners, process, names
<1>5. ServesReady'
  BY BootAssumption DEF TypeOK, Migrating, OneSeeder, Explained, ShopSettled,
     ServesReady, Owners, Seeding, process, names
<1>6. QED
  BY <1>1, <1>2, <1>3, <1>4, <1>5

\* With its items the shop is complete.
LEMMA InsertItemsInd ==
    ASSUME IndInv, NEW p \in Processes, InsertItems(p)
    PROVE  IndInv'
<1> USE IndInv, InsertItems(p) DEF IndInv, InsertItems, Goto, Succeeds, Breaks, SeedFails, WriteItems
<1>1. TypeOK'
  BY BootAssumption DEF TypeOK, States, Seeding, Owners, process, names
<1>2. Migrating'
  BY BootAssumption DEF TypeOK, Migrating, Seeding, process, names
<1>3. OneSeeder'
  BY DEF TypeOK, OneSeeder, process, names
<1>4. Explained'
  BY DEF TypeOK, OneSeeder, Explained, ShopSettled, Owners, process, names
<1>5. ServesReady'
  BY BootAssumption DEF TypeOK, Migrating, OneSeeder, Explained, ShopSettled,
     ServesReady, Owners, Seeding, process, names
<1>6. QED
  BY <1>1, <1>2, <1>3, <1>4, <1>5

\* A crash among the statements of a seed is recorded.
LEMMA CrashInd ==
    ASSUME IndInv, NEW p \in Processes, Crash(p)
    PROVE  IndInv'
<1> USE IndInv, Crash(p) DEF IndInv, Crash, Goto
<1>1. TypeOK'
  BY BootAssumption DEF TypeOK, States, Seeding, Owners, process, names
<1>2. Migrating'
  BY BootAssumption DEF TypeOK, Migrating, Seeding, process, names
<1>3. OneSeeder'
  BY DEF TypeOK, OneSeeder, process, names
<1>4. torn => torn'
  OBVIOUS
<1>5. ShopSettled => ShopSettled' \/ torn'
  <2>1. CASE pc[p] \in {"vendor", "items"}
    BY <2>1
  <2>2. CASE pc[p] \notin {"vendor", "items"}
    BY <2>2 DEF TypeOK, ShopSettled, names
  <2>3. QED
    BY <2>1, <2>2
<1>6. Explained'
  BY <1>4, <1>5 DEF Explained, names
<1>7. ServesReady'
  BY <1>4, <1>5 DEF TypeOK, ServesReady
<1>8. QED
  BY <1>1, <1>2, <1>3, <1>6, <1>7

\* A caller takes the address.
LEMMA RegisterInd ==
    ASSUME IndInv, Register
    PROVE  IndInv'
<1> USE IndInv, Register DEF IndInv, Register, Serving
<1>1. TypeOK'
  BY BootAssumption DEF TypeOK, States, Seeding, Owners, process, names
<1>2. Migrating'
  BY BootAssumption DEF TypeOK, Migrating, Seeding, process, names
<1>3. OneSeeder'
  BY DEF TypeOK, OneSeeder, process, names
<1>4. Explained'
  BY DEF TypeOK, OneSeeder, Explained, ShopSettled, Owners, process, names
<1>5. ServesReady'
  BY BootAssumption DEF TypeOK, Migrating, OneSeeder, Explained, ShopSettled,
     ServesReady, Owners, Seeding, process, names
<1>6. QED
  BY <1>1, <1>2, <1>3, <1>4, <1>5

\* A caller takes the slug.
LEMMA CreateVendorInd ==
    ASSUME IndInv, CreateVendor
    PROVE  IndInv'
<1> USE IndInv, CreateVendor DEF IndInv, CreateVendor, Serving
<1>1. TypeOK'
  BY BootAssumption DEF TypeOK, States, Seeding, Owners, process, names
<1>2. Migrating'
  BY BootAssumption DEF TypeOK, Migrating, Seeding, process, names
<1>3. OneSeeder'
  BY DEF TypeOK, OneSeeder, process, names
<1>4. Explained'
  BY DEF TypeOK, OneSeeder, Explained, ShopSettled, Owners, process, names
<1>5. ServesReady'
  BY BootAssumption DEF TypeOK, Migrating, OneSeeder, Explained, ShopSettled,
     ServesReady, Owners, Seeding, process, names
<1>6. QED
  BY <1>1, <1>2, <1>3, <1>4, <1>5

\* PostgreSQL comes and goes.
LEMMA ToggleInd ==
    ASSUME IndInv, Toggle
    PROVE  IndInv'
<1> USE IndInv, Toggle DEF IndInv, Toggle
<1>1. TypeOK'
  BY BootAssumption DEF TypeOK, States, Seeding, Owners, process, names
<1>2. Migrating'
  BY BootAssumption DEF TypeOK, Migrating, Seeding, process, names
<1>3. OneSeeder'
  BY DEF TypeOK, OneSeeder, process, names
<1>4. Explained'
  BY DEF TypeOK, OneSeeder, Explained, ShopSettled, Owners, process, names
<1>5. ServesReady'
  BY BootAssumption DEF TypeOK, Migrating, OneSeeder, Explained, ShopSettled,
     ServesReady, Owners, Seeding, process, names
<1>6. QED
  BY <1>1, <1>2, <1>3, <1>4, <1>5

\* The end of the faults changes no table.
LEMMA CalmInd ==
    ASSUME IndInv, Calm
    PROVE  IndInv'
<1> USE IndInv, Calm DEF IndInv, Calm
<1>1. TypeOK'
  BY BootAssumption DEF TypeOK, States, Seeding, Owners, process, names
<1>2. Migrating'
  BY BootAssumption DEF TypeOK, Migrating, Seeding, process, names
<1>3. OneSeeder'
  BY DEF TypeOK, OneSeeder, process, names
<1>4. Explained'
  BY DEF TypeOK, OneSeeder, Explained, ShopSettled, Owners, process, names
<1>5. ServesReady'
  BY BootAssumption DEF TypeOK, Migrating, OneSeeder, Explained, ShopSettled,
     ServesReady, Owners, Seeding, process, names
<1>6. QED
  BY <1>1, <1>2, <1>3, <1>4, <1>5

\* Stuttering.
LEMMA StutterInd ==
    ASSUME IndInv, UNCHANGED vars
    PROVE  IndInv'
BY DEF IndInv, vars, process, names, TypeOK, Migrating, OneSeeder, Explained,
   ShopSettled, ServesReady

\* Every step preserves the invariant.
LEMMA NextIndInv == IndInv /\ [Next]_vars => IndInv'
<1> SUFFICES ASSUME IndInv, [Next]_vars PROVE IndInv'
  OBVIOUS
<1>1. ASSUME NEW p \in Processes, Run(p) PROVE IndInv'
  BY <1>1, StartInd, PingInd, MigrateInd, MigratedInd, CountInd, InsertUserInd,
     InsertVendorInd, InsertItemsInd DEF Run
<1>2. QED
  BY <1>1, CrashInd, RegisterInd, CreateVendorInd, ToggleInd, CalmInd, StutterInd DEF Next

\* The inductive invariant holds in every behaviour.
LEMMA Invariance == Spec => []IndInv
BY InitIndInv, NextIndInv, PTL DEF Spec

\* Type correctness of the start sequence (Run, NewPostgres, RunMigrations).
THEOREM TypeCorrect == Spec => []TypeOK
<1>1. IndInv => TypeOK
  BY DEF IndInv
<1>2. QED
  BY Invariance, <1>1, PTL

\* Processes serve only on a complete schema and, in development, with a demo
\* shop that is complete unless a fault or a caller explains what is missing
\* (Run, SeedDemo).
THEOREM StartsSound == Spec => []ServesReady
<1>1. IndInv => ServesReady
  BY DEF IndInv
<1>2. QED
  BY Invariance, <1>1, PTL

\* However many processes start at once, one of them writes the demo vendor
\* and its items (SeedDemo, without a transaction).
THEOREM SeededOnce == Spec => []OneSeeder
<1>1. IndInv => OneSeeder
  BY DEF IndInv
<1>2. QED
  BY Invariance, <1>1, PTL

=============================================================================
