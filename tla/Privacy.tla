------------------------------ MODULE Privacy ------------------------------
(* The anonymity layer of the console (privacy.js): verdict times collapse   *)
(* to windows, seats to pseudonyms that rotate daily, and a row whose window *)
(* and modality too few rows share loses even its pseudonym.  The FNV hash   *)
(* is modelled as an injection of (seat, day): collisions of its 32 bits are *)
(* left out.                                                                 *)
EXTENDS Integers, FiniteSets, Sequences

CONSTANTS
    K_ANON,     \* rows that must share a window and a modality (5)
    Bucket,     \* width of a window (15 minutes)
    NoTime      \* the dash shown for a detection without a timestamp

ASSUME PrivacyAssumption == K_ANON \in Nat \ {0} /\ Bucket \in Nat \ {0}

\* A string that is not a clock falls through unchanged.
BucketTime(clock) == IF clock = NoTime THEN NoTime
                     ELSE (clock \div Bucket) * Bucket

AnonAgentId(seat, day) == <<"anon", seat, day>>
Group == <<"anon-group">>

Key(row) == <<row.time, row.mod>>

RareBuckets(rows) ==
    {k \in {Key(rows[i]) : i \in DOMAIN rows} :
        Cardinality({i \in DOMAIN rows : Key(rows[i]) = k}) < K_ANON}

\* Mutant: rarity is looked up with the exact time.
PrivatizeByExactTime(row, rare, day) ==
    [row EXCEPT !.time = BucketTime(row.time),
                !.agent = IF Key(row) \in rare THEN Group
                          ELSE AnonAgentId(row.agent, day)]

Privatize(row, rare, day) ==
    LET window == [row EXCEPT !.time = BucketTime(row.time)]
    IN  [window EXCEPT !.agent = IF Key(window) \in rare THEN Group
                                 ELSE AnonAgentId(row.agent, day)]

\* What a table of verdicts shows: the windows are counted over all of them.
PrivateTable(rows, day) ==
    LET bucketed == [i \in DOMAIN rows |->
                       [rows[i] EXCEPT !.time = BucketTime(rows[i].time)]]
        rare == RareBuckets(bucketed)
    IN  [i \in DOMAIN rows |-> Privatize(rows[i], rare, day)]

\* Rows of a table that are on screen: a pseudonym among them stands for one of
\* at least K_ANON rows of the whole table with its window and modality, and no
\* row shows a time finer than a window.
HidesAmong(shown, table) ==
    \A i \in DOMAIN shown :
        /\ shown[i].time = BucketTime(shown[i].time)
        /\ \/ shown[i].agent = Group
           \/ Cardinality({j \in DOMAIN table : Key(table[j]) = Key(shown[i])})
                >= K_ANON

=============================================================================
