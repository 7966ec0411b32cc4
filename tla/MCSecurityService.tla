---------------------------- MODULE MCSecurityService ----------------------------
(* SecurityService for TLC: a document in a folder, and few assignments.   *)
EXTENDS SecurityService

CONSTANTS u1, root, g1, g2, doc, folder

MCParent == [o \in Object |-> IF o = doc THEN folder ELSE None]
MCOwner == [o \in Object |-> IF o = doc THEN u1 ELSE None]
MCCreator == [o \in Object |-> IF o = folder THEN u1 ELSE None]

Assign(p, r, o) == [who |-> p, role |-> r, object |-> o]
Allow(perm, r, o) == [permission |-> perm, role |-> r, object |-> o]

MCGrantable == {Assign(u1, "editor", doc), Assign(g1, "editor", doc),
                Assign(g2, "admin", folder), Assign(Visitor, "editor", doc)}
MCAssignable == {Allow("edit", "editor", doc), Allow("edit", "owner", doc),
                 Allow("read", "anonymous", doc)}
================================================================================
