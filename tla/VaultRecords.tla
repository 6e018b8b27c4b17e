---------------------------- MODULE VaultRecords ----------------------------
(***************************************************************************)
(* What the vault's record store promises its callers: a durable map from  *)
(* locators to records.  One operation at a time changes it, a change that *)
(* was answered as done survives every later stop of the process or of the *)
(* machine, and one that was not answered either happened or did not.      *)
(*                                                                         *)
(* One promise is missing and the specification says so: a stop while the  *)
(* whole map is being replaced may leave it empty (LoseAll).               *)
(***************************************************************************)
EXTENDS Naturals

CONSTANTS Locators,      \* the record locators
          Contents,      \* the records a locator may hold, with a generation
          NoRecord       \* no record under the locator

Maps == [Locators -> Contents \cup {NoRecord}]
Empty == [l \in Locators |-> NoRecord]

\* No replacement of the whole map is under way.
NoMap == [l \in {} |-> NoRecord]

VARIABLES
  records,     \* what a read finds
  acked,       \* the map as of the last answer that reported success
  displaced,   \* while the whole map is replaced, what it replaces; else NoMap
  up           \* the store answers

recordsVars == <<records, acked, displaced, up>>

RecordsInit ==
  /\ records = Empty
  /\ acked = Empty
  /\ displaced = NoMap
  /\ up = TRUE

\* The maps a stop of the machine may leave: each locator as it was last
\* answered for or as it stands.
Between(old, new) ==
  {m \in Maps : \A l \in Locators : m[l] \in {old[l], new[l]}}

\* The generation the next record of a locator has.
NextGeneration(l) ==
  IF records[l] = NoRecord THEN 1 ELSE records[l].generation + 1

\* One locator is created, replaced by the next generation, or removed.
Change ==
  /\ up
  /\ displaced = NoMap
  /\ \E l \in Locators :
        \/ \E c \in Contents :
              /\ c.generation = NextGeneration(l)
              /\ records' = [records EXCEPT ![l] = c]
        \/ records' = [records EXCEPT ![l] = NoRecord]
  /\ UNCHANGED <<acked, displaced, up>>

\* A caller is told that the store holds what it now holds.
Answer ==
  /\ up
  /\ acked' = records
  /\ displaced' = NoMap
  /\ UNCHANGED <<records, up>>

\* The whole map is replaced: announced, done, and answered or undone.
ReplaceBegins ==
  /\ up
  /\ displaced = NoMap
  /\ displaced' = records
  /\ UNCHANGED <<records, acked, up>>

ReplaceTakesEffect ==
  /\ up
  /\ displaced # NoMap
  /\ records' \in Maps
  /\ UNCHANGED <<acked, displaced, up>>

ReplaceUndone ==
  /\ up
  /\ displaced # NoMap
  /\ records' = displaced
  /\ displaced' \in {displaced, NoMap}
  /\ UNCHANGED <<acked, up>>

\* The process or the machine stops, perhaps again before it has recovered.
\* What was not answered may be lost.
Stops ==
  /\ up' = FALSE
  /\ \/ records' \in Between(acked, records)
     \/ /\ displaced # NoMap
        /\ records' \in Between(acked, displaced)
  /\ displaced' \in {displaced, records', NoMap}
  /\ UNCHANGED acked

\* The next process finds the map, and what it finds stays.
Recovers ==
  /\ ~up
  /\ up' = TRUE
  /\ acked' = records
  /\ displaced' = NoMap
  /\ UNCHANGED records

\* A stop in the middle of a replacement: the next process finds nothing.
LoseAll ==
  /\ ~up
  /\ displaced # NoMap
  /\ up' = TRUE
  /\ records' = Empty
  /\ acked' = Empty
  /\ displaced' = NoMap

RecordsNext ==
  \/ Change \/ Answer
  \/ ReplaceBegins \/ ReplaceTakesEffect \/ ReplaceUndone
  \/ Stops \/ Recovers \/ LoseAll

RecordsSpec == RecordsInit /\ [][RecordsNext]_recordsVars

=============================================================================
