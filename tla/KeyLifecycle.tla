---------------------------- MODULE KeyLifecycle ----------------------------
(***************************************************************************)
(* What the key store promises about one key, seen from outside: a key is  *)
(* created only where there is none, it leaves the readable state either   *)
(* because it is purged or because it expires, an expired key stays        *)
(* unreadable and keeps its name taken until it is erased, and no step     *)
(* touches two keys.  Storage.tla is shown to implement this module.       *)
(***************************************************************************)
CONSTANT Key

VARIABLE status

Status == {"absent", "live", "expired"}

Init == status = [k \in Key |-> "absent"]

Move(k, from, to) ==
  /\ status[k] = from
  /\ status' = [status EXCEPT ![k] = to]

Create(k) == Move(k, "absent", "live")
Expire(k) == Move(k, "live", "expired")
Erase(k)  == Move(k, "expired", "absent")
Purge(k)  == Move(k, "live", "absent")

Next == \E k \in Key : Create(k) \/ Expire(k) \/ Erase(k) \/ Purge(k)

Spec == Init /\ [][Next]_status

TypeOK == status \in [Key -> Status]
=============================================================================
