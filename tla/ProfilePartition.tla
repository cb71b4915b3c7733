-------------------------- MODULE ProfilePartition --------------------------
(***************************************************************************)
(* The flash partition "profile" of start_profile_case and profile_read    *)
(* (main/case/system_control.c): its one sector is erased and then written *)
(* in two calls.  Its content is a complete profile, "erased" or "torn"    *)
(* (a call that failed or was cut short by a loss of power).               *)
(***************************************************************************)
CONSTANT Profiles

ASSUME ProfileAssumption == {"erased", "torn"} \cap Profiles = {}

VARIABLE flash

FlashTypeOK == flash \in Profiles \cup {"erased", "torn"}

FlashInit == flash \in Profiles \cup {"erased"}

\* esp_partition_erase_range of the sector.
EraseSector      == flash' = "erased"
EraseSectorFails == flash' \in {flash, "torn"}

\* esp_partition_write of the string into the erased sector.
WriteSector(p)   == flash' = p
WriteSectorFails == flash' \in {flash, "torn"}

\* Only a complete profile is a terminated string to printf.
Terminated == flash \in Profiles
=============================================================================
