----------------------------- MODULE Bootstrap -----------------------------
(***************************************************************************)
(* The start of the server: app.Run loads the configuration, waits for     *)
(* PostgreSQL, applies the migrations, seeds the demo shop in development  *)
(* and serves.  Processes start, die and are restarted independently on    *)
(* one database, and the program's own callers may take the names the seed *)
(* wants.                                                                  *)
(*                                                                         *)
(* The seed is three statements without a transaction (SeedDemo): the user *)
(* demo@garuda.local, the vendor "demo", its two items.                    *)
(***************************************************************************)
EXTENDS Naturals

CONSTANTS
    Processes,
    Complete,  \* the processes with every required variable, and a 32-byte key
    AppEnv,    \* APP_ENV of each process
    Files,     \* the number of migration files
    Attempts,  \* maxAttempts of NewPostgres
    Faults     \* whether processes die and the database fails

ASSUME BootAssumption ==
    /\ Complete \subseteq Processes
    /\ AppEnv \in [Processes -> {"unset", "development", "production"}]
    /\ Files \in Nat /\ Attempts \in Nat \ {0}
    /\ Faults \in BOOLEAN

VARIABLES
    pc,      \* where each process is in Run
    tries,   \* pings NewPostgres has sent
    file,    \* the migration file it is about to execute
    schema,  \* migration files whose tables exist
    user,    \* whose the address demo@garuda.local is
    vendor,  \* whose the slug "demo" is
    items,   \* whether the demo vendor has its items
    dbUp,    \* whether PostgreSQL answers
    calm,    \* history: faults are over for good
    torn     \* history: a fault has hit a seed between its statements

process == <<pc, tries, file>>
names   == <<user, vendor, items>>
vars    == <<process, schema, names, dbUp, calm, torn>>

Seeding == {"count", "user", "vendor", "items"}
States  == {"down", "connect", "migrate", "serve"} \cup Seeding
Owners  == {"none", "seed", "other"}

\* config.env: the default of APP_ENV.
env(value) == IF value = "unset" THEN "development" ELSE value

Goto(p, label) == pc' = [pc EXCEPT ![p] = label]

\* What a statement may come back with: whether it took effect, and whether
\* the program is told of an error.
Succeeds == dbUp
Breaks   == ~dbUp \/ (Faults /\ ~calm)

\* The schema once file f was applied, again or for the first time.
Later(f) == IF schema < f THEN f ELSE schema

----------------------------------------------------------------------------
Init ==
    /\ pc = [p \in Processes |-> "down"]
    /\ tries = [p \in Processes |-> 0]
    /\ file = [p \in Processes |-> 1]
    /\ schema = 0
    /\ user = "none" /\ vendor = "none" /\ items = FALSE
    /\ dbUp \in BOOLEAN
    /\ calm = FALSE /\ torn = FALSE

\* The process is started and loads its configuration; one with an
\* incomplete configuration ends at once.
Start(p) ==
    /\ pc[p] = "down" /\ p \in Complete
    /\ Goto(p, "connect")
    /\ tries' = [tries EXCEPT ![p] = 0]
    /\ file' = [file EXCEPT ![p] = 1]
    /\ UNCHANGED <<schema, names, dbUp, calm, torn>>

\* Mutant: one attempt too many.
PingOneMore(p) ==
    /\ pc[p] = "connect"
    /\ \/ /\ Succeeds
          /\ Goto(p, "migrate") /\ UNCHANGED tries
       \/ /\ Breaks
          /\ tries' = [tries EXCEPT ![p] = @ + 1]
          /\ IF tries[p] = Attempts THEN Goto(p, "down") ELSE UNCHANGED pc
    /\ UNCHANGED <<file, schema, names, dbUp, calm, torn>>

\* One round of NewPostgres: a ping, which may time out; after the last one
\* the process gives up.
Ping(p) ==
    /\ pc[p] = "connect"
    /\ \/ /\ Succeeds
          /\ Goto(p, "migrate") /\ UNCHANGED tries
       \/ /\ Breaks
          /\ tries' = [tries EXCEPT ![p] = @ + 1]
          /\ IF tries'[p] = Attempts THEN Goto(p, "down") ELSE UNCHANGED pc
    /\ UNCHANGED <<file, schema, names, dbUp, calm, torn>>

\* Mutant: the error of a migration is only logged.
MigrateLenient(p) ==
    /\ pc[p] = "migrate" /\ file[p] <= Files
    /\ file' = [file EXCEPT ![p] = @ + 1]
    /\ \/ Succeeds /\ schema' = Later(file[p])
       \/ Breaks /\ UNCHANGED schema
    /\ UNCHANGED <<pc, tries, names, dbUp, calm, torn>>

\* RunMigrations executes the next file, one implicit transaction of
\* statements that skip what exists.  The processes in losers are creating
\* the same tables at this moment and get a duplicate-key error of the
\* system catalog, which ends them; so does every other error.
Migrate(p) ==
    /\ pc[p] = "migrate" /\ file[p] <= Files
    /\ \/ \E losers \in SUBSET {q \in Processes \ {p} :
                        pc[q] = "migrate" /\ file[q] = file[p] /\ schema < file[p]} :
            /\ Succeeds
            /\ schema' = Later(file[p])
            /\ file' = [file EXCEPT ![p] = @ + 1]
            /\ pc' = [q \in Processes |-> IF q \in losers THEN "down" ELSE pc[q]]
       \/ /\ Breaks
          /\ Goto(p, "down")
          /\ UNCHANGED schema \/ (dbUp /\ schema' = Later(file[p]))
          /\ UNCHANGED file
    /\ UNCHANGED <<tries, names, dbUp, calm, torn>>

\* The files are done: seed in development, serve otherwise.
Migrated(p) ==
    /\ pc[p] = "migrate" /\ file[p] > Files
    /\ Goto(p, IF env(AppEnv[p]) = "development" THEN "count" ELSE "serve")
    /\ UNCHANGED <<tries, file, schema, names, dbUp, calm, torn>>

----------------------------------------------------------------------------
\* SeedDemo.  Its errors are not reported: the process serves all the same.

\* The number of demo vendors; if it cannot be read it stays 0.
Count(p) ==
    /\ pc[p] = "count"
    /\ \/ Succeeds /\ Goto(p, IF vendor # "none" THEN "serve" ELSE "user")
       \/ Breaks /\ Goto(p, "user")
    /\ UNCHANGED <<tries, file, schema, names, dbUp, calm, torn>>

\* The statement Write of the seed failed, or only its answer was lost; the
\* seed ends.
SeedFails(p, Write) ==
    /\ Breaks
    /\ Write \/ UNCHANGED names
    /\ Goto(p, "serve")
    /\ torn' = TRUE

WriteUser   == dbUp /\ user = "none" /\ user' = "seed" /\ UNCHANGED <<vendor, items>>
WriteVendor == dbUp /\ vendor = "none" /\ vendor' = "seed" /\ UNCHANGED <<user, items>>
WriteItems  == dbUp /\ items' = TRUE /\ UNCHANGED <<user, vendor>>

\* Mutant: an address that is taken is an error of Run.
InsertUserFatal(p) ==
    /\ pc[p] = "user"
    /\ \/ WriteUser /\ Goto(p, "vendor") /\ UNCHANGED torn
       \/ /\ Succeeds /\ user # "none"
          /\ Goto(p, "down") /\ UNCHANGED <<names, torn>>
       \/ SeedFails(p, WriteUser)
    /\ UNCHANGED <<tries, file, schema, dbUp, calm>>

\* An address that is taken ends the seed.
InsertUser(p) ==
    /\ pc[p] = "user"
    /\ \/ WriteUser /\ Goto(p, "vendor") /\ UNCHANGED torn
       \/ /\ Succeeds /\ user # "none"
          /\ Goto(p, "serve") /\ UNCHANGED <<names, torn>>
       \/ SeedFails(p, WriteUser)
    /\ UNCHANGED <<tries, file, schema, dbUp, calm>>

\* So does a slug that was taken since it was counted.
InsertVendor(p) ==
    /\ pc[p] = "vendor"
    /\ \/ WriteVendor /\ Goto(p, "items") /\ UNCHANGED torn
       \/ /\ Succeeds /\ vendor # "none"
          /\ Goto(p, "serve") /\ UNCHANGED <<names, torn>>
       \/ SeedFails(p, WriteVendor)
    /\ UNCHANGED <<tries, file, schema, dbUp, calm>>

\* Both items in one INSERT.
InsertItems(p) ==
    /\ pc[p] = "items"
    /\ \/ WriteItems /\ Goto(p, "serve") /\ UNCHANGED torn
       \/ SeedFails(p, WriteItems)
    /\ UNCHANGED <<tries, file, schema, dbUp, calm>>

----------------------------------------------------------------------------
\* Callers of a serving process register the address or create a vendor with
\* the slug (both take any name).
Serving == \E p \in Processes : pc[p] = "serve"

Register ==
    /\ Serving /\ dbUp /\ user = "none"
    /\ user' = "other"
    /\ UNCHANGED <<process, schema, vendor, items, dbUp, calm, torn>>

CreateVendor ==
    /\ Serving /\ dbUp /\ vendor = "none"
    /\ vendor' = "other"
    /\ UNCHANGED <<process, schema, user, items, dbUp, calm, torn>>

\* A process dies; what it has written stays.
Crash(p) ==
    /\ Faults /\ ~calm
    /\ pc[p] # "down"
    /\ Goto(p, "down")
    /\ torn' = (torn \/ pc[p] \in {"vendor", "items"})
    /\ UNCHANGED <<tries, file, schema, names, dbUp, calm>>

\* PostgreSQL stops or comes back.
Toggle ==
    /\ Faults /\ ~calm
    /\ dbUp' = ~dbUp
    /\ UNCHANGED <<process, schema, names, calm, torn>>

\* From here on PostgreSQL is up and nothing fails any more.
Calm ==
    /\ ~calm
    /\ calm' = TRUE /\ dbUp' = TRUE
    /\ UNCHANGED <<process, schema, names, torn>>

----------------------------------------------------------------------------
Run(p) ==
    \/ Start(p) \/ Ping(p) \/ Migrate(p) \/ Migrated(p)
    \/ Count(p) \/ InsertUser(p) \/ InsertVendor(p) \/ InsertItems(p)

Next ==
    \/ \E p \in Processes : Run(p) \/ Crash(p)
    \/ Register \/ CreateVendor \/ Toggle \/ Calm

Spec == Init /\ [][Next]_vars

\* A process that runs goes on, and one that has ended is started again
\* (restart: unless-stopped).
FairSpec == Spec /\ \A p \in Processes : WF_vars(Run(p))

----------------------------------------------------------------------------
TypeOK ==
    /\ pc \in [Processes -> States]
    /\ tries \in [Processes -> 0..Attempts]
    /\ file \in [Processes -> 1..(Files + 1)]
    /\ schema \in 0..Files
    /\ user \in Owners /\ vendor \in Owners
    /\ items \in BOOLEAN /\ dbUp \in BOOLEAN
    /\ calm \in BOOLEAN /\ torn \in BOOLEAN

\* The demo shop is there, or somebody else has one of its names, or another
\* process is still at it.
ShopSettled ==
    \/ vendor = "seed" /\ items
    \/ vendor = "other" \/ user = "other"
    \/ \E q \in Processes : pc[q] \in {"vendor", "items"}

\* A process serves only on a complete schema, and in development only with a
\* complete demo shop: however starts race each other and the callers, only
\* a fault in the middle of a seed leaves a part of it (Run, SeedDemo).
ServesReady ==
    \A p \in Processes : pc[p] = "serve" =>
        /\ schema = Files
        /\ env(AppEnv[p]) = "development" => ShopSettled \/ torn

\* Whatever faults, half-made seeds and half-applied migrations earlier starts
\* have left behind, once the faults are over every configured process serves:
\* the migrations can be repeated and the seed never stops a start.
Boots == \A p \in Complete : calm ~> [](pc[p] = "serve")

----------------------------------------------------------------------------
\* The inductive invariant behind ServesReady.

\* A process that is past a file has its tables, and one that still waits
\* for PostgreSQL has a ping left.
Migrating ==
    \A p \in Processes :
        /\ pc[p] = "connect" => tries[p] < Attempts /\ file[p] = 1
        /\ pc[p] = "migrate" => file[p] <= schema + 1
        /\ pc[p] \in Seeding \cup {"serve"} => schema = Files

\* The address lets one process past it, for ever, and the vendor and the
\* items of the seed are that process's.
OneSeeder ==
    /\ \A p, q \in Processes :
        pc[p] \in {"vendor", "items"} /\ pc[q] \in {"vendor", "items"} => p = q
    /\ \A p \in Processes :
        /\ pc[p] \in {"vendor", "items"} => user = "seed"
        /\ pc[p] = "vendor" => vendor # "seed"
        /\ pc[p] = "items" => vendor = "seed"
    /\ vendor = "seed" => user = "seed"

\* A seed that was begun is complete, goes on, or was hit by a fault.
Explained == user = "seed" => ShopSettled \/ torn

IndInv == TypeOK /\ Migrating /\ OneSeeder /\ Explained /\ ServesReady

=============================================================================
