----------------------------- MODULE AccessRules -----------------------------
(***************************************************************************)
(* Who may create, replace, delete and read documents                      *)
(* (storage/acl.py), and the access metadata an upload gives its documents *)
(* (backend/api/upload.py).  What is missing is "", as in the code.        *)
(***************************************************************************)
CONSTANTS People,       \* user ids
          Departments,  \* department codes
          General       \* the department of who and what names none

ASSUME AccessConstants ==
    /\ General \in Departments
    /\ "" \notin People \cup Departments

Visibilities == {"private", "department", "all"}

User == [id : People, roles : SUBSET {"admin", "editor", "viewer"}, department : Departments]

\* What a row may hold; a form sets no owner.
Metadata == [visibility : Visibilities \cup {""}, department : Departments \cup {""},
             owner : People \cup {""}]

IsAdmin(u) == "admin" \in u.roles
IsEditor(u) == "editor" \in u.roles

\* normalize_acl_metadata, for the upload of a user: the owner is the user,
\* whatever the form says.
Stamped(u, form) ==
    [visibility |-> IF form.visibility = "" THEN "all" ELSE form.visibility,
     department |-> IF form.department = "" THEN General ELSE form.department,
     owner |-> u.id]

Complete(m) ==
    /\ m.visibility # "" /\ m.department # ""
    /\ m.visibility = "private" => m.owner # ""

\* What is there for everyone is an administrator's to create.
MayCreate(u, m) ==
    \/ IsAdmin(u)
    \/ /\ IsEditor(u)
       /\ m.visibility \in {"private", "department"}
       /\ m.department = u.department

\* can_update_document, can_replace_document, can_delete_document
MayManage(u, m) ==
    \/ IsAdmin(u)
    \/ IsEditor(u) /\ m.owner = u.id /\ MayCreate(u, m)

\* Incomplete metadata admits administrators only.
MayRead(u, m) ==
    \/ IsAdmin(u)
    \/ /\ Complete(m)
       /\ CASE m.visibility = "all" -> TRUE
            [] m.visibility = "department" -> m.department = u.department
            [] m.visibility = "private" -> m.owner = u.id

\* The relations for some users and rows.  A row that an upload of u stamps stays
\* as it is when stamped again.
Creating(U, M) == {<<u, m>> \in U \X M : MayCreate(u, m) /\ m = Stamped(u, m)}
Managing(U, M) == {<<u, m>> \in U \X M : MayManage(u, m)}
Reading(U, M) == {<<u, m>> \in U \X M : MayRead(u, m)}
=============================================================================
