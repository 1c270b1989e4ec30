----------------------------- MODULE TenantKeys -----------------------------
(***************************************************************************)
(* The encryption keys of one tenant (pkg/encrypt/keys.go and its API      *)
(* handlers).  KeyStore uses the connection pool, not the transaction of   *)
(* the request: every statement commits by itself, and a rotation is two   *)
(* of them.  tenant_encryption_keys has UNIQUE (tenant_id).                *)
(***************************************************************************)
EXTENDS Naturals

CONSTANTS
  Requests,      \* requests to create, rotate or revoke
  MaxKeys        \* bound on the rows ever inserted

VARIABLES
  key,           \* tenant_encryption_keys: row -> status, "absent" if none
  req            \* each request: [op, at]

vars == <<key, req>>

Keys == 1 .. MaxKeys
Status == {"active", "rotating", "compromised"}

TypeOK ==
  /\ key \in [Keys -> Status \cup {"absent"}]
  /\ req \in [Requests -> [op : {"create", "rotate", "revoke"},
                           at : {"start", "insert", "answered", "failed",
                                 "died"}]]

Init ==
  /\ key = [k \in Keys |-> "absent"]
  /\ req \in [Requests -> [op : {"create", "rotate", "revoke"},
                           at : {"start"}]]

Moves(r, from, to) == req[r].at = from /\ req' = [req EXCEPT ![r].at = to]

RowPerKey == \E k \in Keys : key[k] = "absent"

(* UNIQUE (tenant_id): a row is inserted only where there is none. *)
Insertable == \A k \in Keys : key[k] = "absent"

(* The INSERT of CreateKey, or its error. *)
CreateKey(r, from) ==
  \/ /\ Insertable
     /\ \E k \in Keys :
          /\ key[k] = "absent"
          /\ \A j \in Keys : j < k => key[j] # "absent"
          /\ key' = [key EXCEPT ![k] = "active"]
     /\ Moves(r, from, "answered")
  \/ /\ ~ Insertable
     /\ Moves(r, from, "failed")
     /\ UNCHANGED key

handleCreateKey(r) == req[r].op = "create" /\ CreateKey(r, "start")

(* RotateKey's first statement, committed before the second is sent. *)
Deactivate(r) ==
  /\ req[r].op = "rotate"
  /\ key' = [k \in Keys |-> IF key[k] = "active" THEN "rotating" ELSE key[k]]
  /\ Moves(r, "start", "insert")

RotateKey(r) == req[r].op = "rotate" /\ CreateKey(r, "insert")

(* The process dies or the connection is lost between the two. *)
RotationDies(r) ==
  /\ Moves(r, "insert", "died")
  /\ UNCHANGED key

RevokeKey(r, k) ==
  /\ req[r].op = "revoke"
  /\ key[k] # "absent"
  /\ key' = [key EXCEPT ![k] = "compromised"]
  /\ Moves(r, "start", "answered")

Next ==
  \E r \in Requests :
    \/ handleCreateKey(r) \/ Deactivate(r) \/ RotateKey(r) \/ RotationDies(r)
    \/ \E k \in Keys : RevokeKey(r, k)

Spec == Init /\ [][Next]_vars

-----------------------------------------------------------------------------
(* GetActiveKey *)
Active == {k \in Keys : key[k] = "active"}

(* A tenant has at most one active key, however creations and rotations    *)
(* overlap, so GetActiveKey is never a choice; and a request that was      *)
(* answered with a new key has left a row (CreateKey, RotateKey).          *)
OneActiveKey ==
  /\ \A j, k \in Active : j = k
  /\ (\E r \in Requests : req[r].at = "answered") =>
       \E k \in Keys : key[k] # "absent"

(* The UNIQUE constraint holds whatever is in flight, and rows stay.        *)
KeyInv ==
  /\ TypeOK
  /\ \A j, k \in Keys : key[j] # "absent" /\ key[k] # "absent" => j = k
  /\ (\E r \in Requests : req[r].at = "answered") =>
       \E k \in Keys : key[k] # "absent"

(* docs/FEATURES.md: rotation is "Create new key, mark old as rotating".   *)
(* Once no rotation is under way and none was cut short, a tenant that has *)
(* keys, none of them revoked, has an active one.                          *)
RotationLeavesKey ==
  (\A r \in Requests : req[r].at \notin {"insert", "died"})
    => \/ Active # {}
       \/ \A k \in Keys : key[k] = "absent"
       \/ \E k \in Keys : key[k] = "compromised"
=============================================================================
