--------------------------------- MODULE Menu ---------------------------------
(***************************************************************************)
(* The idle flow and the settings menus, and the settings they keep in      *)
(* non-volatile memory.                                                     *)
(***************************************************************************)
EXTENDS Globals

VARIABLES
  N_storage,       \* the settings in non-volatile memory
  dataAllowed,     \* their copies in RAM, taken when main() starts the UX
  contractDetails

menuVars == <<N_storage, dataAllowed, contractDetails>>

Storage == [dataAllowed : 0..1, contractDetails : 0..1, initialized : 0..1]

MenuTypeOK ==
  /\ N_storage \in Storage
  /\ dataAllowed \in 0..1 /\ contractDetails \in 0..1

(* A device on which the application was just installed.                    *)
FreshStorage == [dataAllowed |-> 0, contractDetails |-> 0, initialized |-> 0]

MenuInit ==
  /\ N_storage = FreshStorage
  /\ dataAllowed = 0 /\ contractDetails = 0

(* Slip: the settings are initialised at every start.                       *)
AlwaysInitialised(storage) == [FreshStorage EXCEPT !.initialized = 1]

(* main(): the settings are initialised once, then copied.                  *)
Initialised(storage) ==
  IF storage.initialized = 1 THEN storage
  ELSE [FreshStorage EXCEPT !.initialized = 1]

LoadStorage ==
  /\ N_storage' = Initialised(N_storage)
  /\ dataAllowed' = Initialised(N_storage).dataAllowed
  /\ contractDetails' = Initialised(N_storage).contractDetails

OpenSettings ==
  /\ Validates("idle", 2)
  /\ GoTo(Show("settings", 1))
  /\ UNCHANGED menuVars

(* Lists of a setting open at its present value.                            *)
SettingsSelector ==
  /\ \/ Validates("settings", 1)
        /\ GoTo(Show("contractData", N_storage.dataAllowed + 1))
     \/ Validates("settings", 2)
        /\ GoTo(Show("displayData", N_storage.contractDetails + 1))
     \/ Validates("settings", 3) /\ GoTo(UiIdle)
  /\ UNCHANGED menuVars

(* Slip: the number of the entry is written instead of what it stands for.  *)
ContractEntryWritten(enabled) ==
  /\ Validates("contractData", enabled + 1)
  /\ N_storage' = [N_storage EXCEPT !.dataAllowed = enabled + 1]
  /\ GoTo(UiIdle)
  /\ UNCHANGED <<dataAllowed, contractDetails>>

(* "No" and "Yes" are written through; the copies in RAM are left as they   *)
(* are until the UX is started again.                                       *)
ContractDataChange(enabled) ==
  /\ Validates("contractData", enabled + 1)
  /\ N_storage' = [N_storage EXCEPT !.dataAllowed = enabled]
  /\ GoTo(UiIdle)
  /\ UNCHANGED <<dataAllowed, contractDetails>>

DisplayDataChange(enabled) ==
  /\ Validates("displayData", enabled + 1)
  /\ N_storage' = [N_storage EXCEPT !.contractDetails = enabled]
  /\ GoTo(UiIdle)
  /\ UNCHANGED <<dataAllowed, contractDetails>>

SettingBack ==
  /\ Validates("contractData", 3) \/ Validates("displayData", 3)
  /\ GoTo(Show("settings", 1))
  /\ UNCHANGED menuVars

(* The stored setting is reported.  Slip: the copy in RAM is.               *)
ConfigurationInRam == [dataAllowed |-> dataAllowed]
Configuration == [dataAllowed |-> N_storage.dataAllowed]

GetAppConfiguration ==
  /\ Reply(Configuration)
  /\ UNCHANGED menuVars
=============================================================================
