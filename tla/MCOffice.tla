------------------------------ MODULE MCOffice ------------------------------
(***************************************************************************)
(* More services that share no rows, side by side as in MCServices: scope  *)
(* picks the one whose requests come.                                      *)
(***************************************************************************)
EXTENDS AssetBooking, Submission, Admission, Maintenance, Erasure,
        PermissionCache, FileStore, TLC

VARIABLE scope

Offices == {"asset", "submission", "admission", "maintenance", "erasure", "permissions",
            "files"}

vars == <<scope, requestVars, assetVars, submissionRows, admissionRows,
          maintenanceRows, erasureRows, cacheRows, fileRows>>

\* A booking holds its locks across statements and has request slots of its own,
\* so alone tells nothing there, nor for files; the permissions, once Redis is there,
\* promise something only to requests that do not overlap at a single instance.
Init == /\ AssetInit /\ SubmissionInit /\ AdmissionInit
        /\ MaintenanceInit /\ ErasureInit /\ CacheInit /\ FileInit
        /\ scope \in Offices
        /\ scope \in {"asset", "files"} => ~alone
        /\ IF scope = "permissions"
           THEN shared => alone /\ \E p \in Instances : serving = {p}
           ELSE ~shared /\ serving = Instances

Next == /\ UNCHANGED scope
        /\ \/ /\ scope = "asset" /\ AssetNext
              /\ UNCHANGED <<requestVars, submissionRows, admissionRows, maintenanceRows,
                             erasureRows, cacheRows, fileRows>>
           \/ /\ scope = "submission" /\ SubmissionNext
              /\ UNCHANGED <<assetVars, admissionRows, maintenanceRows,
                             erasureRows, cacheRows, fileRows>>
           \/ /\ scope = "admission" /\ AdmissionNext
              /\ UNCHANGED <<assetVars, submissionRows, maintenanceRows,
                             erasureRows, cacheRows, fileRows>>
           \/ /\ scope = "maintenance" /\ MaintenanceNext
              /\ UNCHANGED <<assetVars, submissionRows, admissionRows,
                             erasureRows, cacheRows, fileRows>>
           \/ /\ scope = "erasure" /\ ErasureNext
              /\ UNCHANGED <<assetVars, submissionRows, admissionRows, maintenanceRows,
                             cacheRows, fileRows>>
           \/ /\ scope = "permissions" /\ CacheNext
              /\ UNCHANGED <<assetVars, submissionRows, admissionRows, maintenanceRows,
                             erasureRows, fileRows>>
           \/ /\ scope = "files" /\ FileNext
              /\ UNCHANGED <<assetVars, submissionRows, admissionRows, maintenanceRows,
                             erasureRows, cacheRows>>

Spec == Init /\ [][Next]_vars

\* One handler or client is as good as another, and so is one booking, work
\* or instance: the sets of each kind are given the same members.
MCSymmetry == Permutations(Handlers) \cup Permutations(Bookings)
=============================================================================
