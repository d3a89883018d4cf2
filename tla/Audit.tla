-------------------------------- MODULE Audit --------------------------------
(***************************************************************************)
(* audit.service.ts: logAudit inserts one row, and swallows the error when *)
(* the insert fails.  A service awaits it before or after its own          *)
(* statement, outside any transaction.                                     *)
(***************************************************************************)
EXTENDS Database

VARIABLES auditLog,    \* the rows of the audit_logs table
          auditLost    \* history: the entries whose insert failed

auditVars == <<auditLog, auditLost>>

AuditInit == auditLog = {} /\ auditLost = {}

AuditEntry(tableName, recordId, action, oldValues, newValues) ==
  [tableName |-> tableName, recordId |-> recordId, action |-> action,
   oldValues |-> oldValues, newValues |-> newValues]

LogAudit(entry) ==
  \/ auditLog' = auditLog \cup {entry} /\ UNCHANGED auditLost
  \/ auditLost' = auditLost \cup {entry} /\ UNCHANGED auditLog

(* The entry was handed to logAudit.                                       *)
Logged(entry) == entry \in auditLog \cup auditLost
=============================================================================
