------------------------- MODULE AuditVerification -------------------------
(***************************************************************************)
(* verify_audit_chain of query_api/app/control_plane/postgres_store.py,    *)
(* which the audit export of services/state_manager.py and the check after *)
(* a restore run: at READ COMMITTED it reads the entries in one statement  *)
(* and the head in another, while the store of ControlPlaneLog goes on.    *)
(***************************************************************************)
EXTENDS ControlPlaneLog

CONSTANTS
    Nil,
    MaxAudit     \* bound: audit entries

VARIABLES
    read,        \* the entries the verification has read, or Nil
    alarmed      \* it raised AuditIntegrityError

HeadOf(chain) == [sequence |-> Len(chain), hash |-> Tip(chain)]

ReadEntries ==
    /\ read = Nil
    /\ read' = audit
    /\ UNCHANGED <<cpLogVars, alarmed>>

CompareHead ==
    /\ read # Nil
    /\ alarmed' = (~Verified(read) \/ HeadOf(read) # HeadOf(audit))
    /\ read' = Nil
    /\ UNCHANGED cpLogVars

VerificationInit == CPLogInit /\ read = Nil /\ alarmed = FALSE

VerificationNext ==
    \/ Len(audit) < MaxAudit /\ (Commit \/ AppendAudit(0)) /\ UNCHANGED <<read, alarmed>>
    \/ ReadEntries
    \/ CompareHead

VerificationSpec ==
    VerificationInit /\ [][VerificationNext]_<<cpLogVars, read, alarmed>>

-----------------------------------------------------------------------------

(* NoFalseAlarm: verification raises AuditIntegrityError only for a chain  *)
(* that was altered, and nothing here alters it.                           *)
NoFalseAlarm == ~alarmed
=============================================================================
