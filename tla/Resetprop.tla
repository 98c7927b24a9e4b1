----------------------------- MODULE Resetprop -----------------------------
(***************************************************************************)
(* resetprop: native/src/core/resetprop/resetprop.cpp and the storage of   *)
(* persistent properties in persist.rs.  Several processes use it at a     *)
(* time: writers that set and delete properties, directly in the shared    *)
(* property area or through property_service, and one that waits for a     *)
(* property to change.                                                     *)
(*                                                                         *)
(* A property in the area is [val, serial, id]: the serial grows with      *)
(* every update, the id tells a prop_info from the one added after a       *)
(* deletion (0: there is none).                                            *)
(***************************************************************************)
EXTENDS Integers

CONSTANTS Users,         \* resetprop processes that write
          Ro, Persist,   \* the names that start with "ro.", with "persist."
          Values,        \* short values
          Long,          \* a value of PROP_VALUE_MAX bytes or more
          MaxOps         \* bound on the commands in all

VARIABLES area, areaSerial, stored, user, waiter, ops, sync, overlap

propVars == <<area, areaSerial, stored, user, waiter, ops, sync, overlap>>

PropNames == Ro \cup Persist
NoVal == "none"
Absent == [val |-> NoVal, serial |-> 0, id |-> 0]
Exists(n) == area[n].id # 0
User(pc, name, val, file) == [pc |-> pc, name |-> name, val |-> val, file |-> file]
Idle == User("idle", NoVal, NoVal, <<>>)
AllIdle == \A u \in Users : user[u].pc = "idle"

----------------------------------------------------------------------------
(* The property area (external): an update keeps the prop_info, an add     *)
(* makes a new one; both change the serial of the area.                    *)

Update(a, n, v) == [a EXCEPT ![n] = [val |-> v, serial |-> @.serial + 1, id |-> @.id]]
Add(a, n, v) == [a EXCEPT ![n] = [val |-> v, serial |-> 1, id |-> areaSerial + 1]]
Delete(a, n) == [a EXCEPT ![n] = Absent]

\* Mutant: a persistent property set past the service is not stored.
NeverPersist(flags, n) == FALSE
\* set_prop: what the service would have stored has to be stored here.
Persists(flags, n) == "skip" \in flags /\ "persist" \in flags /\ n \in Persist

SetFlags(flags, n) == IF n \in Ro THEN flags \cup {"skip"} ELSE flags

\* A long value never fits an existing ro property: it is deleted first.
Replaces(n, v) == n \in Ro /\ Exists(n) /\ (area[n].val = Long \/ v = Long)

\* set_prop up to the storage.  property_service stores by itself.  Only a
\* "ro." property may be long: otherwise nothing changes and it returns an error.
SetProp(u, n, v, fl) ==
  LET flags == SetFlags(fl, n)
      base == IF Replaces(n, v) THEN Delete(area, n) ELSE area
      service == "skip" \notin flags
  IN  /\ user[u].pc = "idle" /\ ops < MaxOps
      /\ v = Long => n \in Ro
      /\ area' = IF base[n].id # 0 THEN Update(base, n, v) ELSE Add(base, n, v)
      /\ areaSerial' = areaSerial + 1
      /\ stored' = IF service /\ n \in Persist THEN [stored EXCEPT ![n] = v] ELSE stored
      /\ user' = [user EXCEPT ![u] = IF Persists(flags, n)
                                     THEN User("read", n, v, <<>>)
                                     ELSE @]
      /\ sync' = IF n \in Persist
                 THEN [sync EXCEPT ![n] = service \/ "persist" \in flags] ELSE sync
      /\ overlap' = (overlap \/ (n \in Persist /\ ~AllIdle))
      /\ ops' = ops + 1
      /\ UNCHANGED waiter

\* delete_prop: the storage is changed even if the area has no such property.
DeleteProp(u, n, flags) ==
  /\ user[u].pc = "idle" /\ ops < MaxOps
  /\ area' = Delete(area, n)
  /\ user' = [user EXCEPT ![u] = IF "persist" \in flags /\ n \in Persist
                                 THEN User("read", n, NoVal, <<>>) ELSE @]
  /\ sync' = IF n \in Persist THEN [sync EXCEPT ![n] = "persist" \in flags] ELSE sync
  /\ overlap' = (overlap \/ (n \in Persist /\ ~AllIdle))
  /\ ops' = ops + 1
  /\ UNCHANGED <<areaSerial, stored, waiter>>

\* persist_set_prop and persist_delete_prop: the file is read, changed and
\* written anew under another name, without a lock.  There is nothing to
\* write when the property to delete is not stored.
PersistRead(u) ==
  /\ user[u].pc = "read"
  /\ user' = [user EXCEPT ![u] = IF @.val = NoVal /\ stored[@.name] = NoVal THEN Idle
                                 ELSE User("write", @.name, @.val, stored)]
  /\ UNCHANGED <<area, areaSerial, stored, waiter, ops, sync, overlap>>

PersistWrite(u) ==
  /\ user[u].pc = "write"
  /\ stored' = [user[u].file EXCEPT ![user[u].name] = user[u].val]
  /\ user' = [user EXCEPT ![u] = Idle]
  /\ UNCHANGED <<area, areaSerial, waiter, ops, sync, overlap>>

\* load_file: one set_prop after the other, so it is no action of its own.

----------------------------------------------------------------------------
(* get_prop: the area first, then the storage.                             *)

GetProp(n, flags) ==
  LET v == IF "persistOnly" \in flags \/ ~Exists(n) THEN NoVal ELSE area[n].val IN
  IF v = NoVal /\ flags # {} /\ n \in Persist THEN stored[n] ELSE v

(* wait_prop, step by step.  The serial of the area is read before the     *)
(* property is looked for.                                                 *)

WaiterIs(pc) == waiter.pc = pc
Others == <<area, areaSerial, stored, user, ops, sync, overlap>>

WaitStart ==
  /\ WaiterIs("start")
  /\ waiter' = [waiter EXCEPT !.pc = "find", !.serial = areaSerial]
  /\ UNCHANGED Others

WaitFind ==
  /\ WaiterIs("find")
  /\ waiter' = IF Exists(waiter.name)
               THEN [waiter EXCEPT !.pc = "read", !.id = area[waiter.name].id]
               ELSE [waiter EXCEPT !.pc = "waitArea"]
  /\ UNCHANGED Others

\* Mutant: the serial is read after the property was not found.
WaitAreaLate ==
  /\ WaiterIs("waitArea")
  /\ \/ /\ waiter.id = 0
        /\ waiter' = [waiter EXCEPT !.id = -1, !.serial = areaSerial]
     \/ /\ waiter.id = -1 /\ waiter.serial # areaSerial
        /\ waiter' = [waiter EXCEPT !.id = 0, !.pc = "find"]
  /\ UNCHANGED Others

\* __system_property_wait on the area: asleep until the serial differs.
WaitArea ==
  /\ WaiterIs("waitArea") /\ waiter.serial # areaSerial
  /\ waiter' = [waiter EXCEPT !.pc = "find", !.serial = areaSerial]
  /\ UNCHANGED Others

Found == area[waiter.name].id = waiter.id

WaitRead ==
  /\ WaiterIs("read") /\ Found
  /\ LET p == area[waiter.name]
         again == IF waiter.old = NoVal THEN ~waiter.woken ELSE p.val = waiter.old
     IN  waiter' = [waiter EXCEPT !.pc = IF again THEN "wait" ELSE "done",
                                  !.serial = p.serial, !.val = p.val]
  /\ UNCHANGED Others

\* __system_property_wait on the prop_info.
WaitProp ==
  /\ WaiterIs("wait") /\ Found /\ area[waiter.name].serial # waiter.serial
  /\ waiter' = [waiter EXCEPT !.pc = "read", !.woken = TRUE]
  /\ UNCHANGED Others

PropInit ==
  /\ \E v \in Values \cup {NoVal} :
       /\ area = [n \in PropNames |-> IF v = NoVal THEN Absent ELSE [val |-> v, serial |-> 1, id |-> 1]]
       /\ stored = [n \in Persist |-> v]
  /\ areaSerial = 1 /\ sync = [n \in Persist |-> TRUE]
  /\ user = [u \in Users |-> Idle] /\ ops = 0 /\ overlap = FALSE
  /\ \E n \in PropNames, old \in Values \cup {NoVal} :
       waiter = [pc |-> "start", name |-> n, old |-> old, serial |-> 0, id |-> 0,
                 val |-> NoVal, woken |-> FALSE]

WaitNext == WaitStart \/ WaitFind \/ WaitArea \/ WaitRead \/ WaitProp
UserNext == \E u \in Users : PersistRead(u) \/ PersistWrite(u)

PropNext ==
  \/ WaitNext \/ UserNext
  \/ \E u \in Users, n \in PropNames, fl \in SUBSET {"skip", "persist"} :
       \/ \E v \in Values \cup {Long} : SetProp(u, n, v, fl)
       \/ DeleteProp(u, n, fl)

PropFair == WF_propVars(WaitNext) /\ WF_propVars(UserNext)
PropSpec == PropInit /\ [][PropNext]_propVars /\ PropFair

----------------------------------------------------------------------------
(* When every change of a persistent property went through the service or  *)
(* asked for it with -p, the storage holds what the area holds, and a read *)
(* with -P gives what a read without it gives; only changes that overlap   *)
(* in time may leave them apart.                                           *)
StoredIsCurrent ==
  ~overlap /\ AllIdle =>
    \A n \in Persist : sync[n] => GetProp(n, {"persistOnly"}) = GetProp(n, {})

(* A waiter is not left asleep: if in the end the property is there, with  *)
(* a value other than OLD_VALUE, and is still the prop_info it waits on,   *)
(* wait_prop returns.                                                      *)
WaitReturns ==
  <>[](/\ Exists(waiter.name) /\ waiter.id \in {-1, 0, area[waiter.name].id}
       /\ waiter.old # NoVal /\ area[waiter.name].val # waiter.old)
    => <>WaiterIs("done")
=============================================================================
