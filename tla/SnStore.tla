------------------------------ MODULE SnStore ------------------------------
(***************************************************************************)
(* The serial number of main/case/sn_case.c, kept as one string in NVS.    *)
(* Serial numbers are told apart by what the code does with their length:  *)
(* set_sn_case accepts 1 to 31 characters, get_sn_case offers nvs_get_str  *)
(* a buffer of 31 bytes, and a string of 31 characters needs 32.           *)
(***************************************************************************)
CONSTANTS
    ShortSns,   \* serial numbers of 1 to 30 characters
    LongSns,    \* serial numbers of exactly 31 characters
    None        \* no serial number, no command

ASSUME SnAssumption == /\ ShortSns \cap LongSns = {}
                       /\ None \notin ShortSns \cup LongSns

VARIABLE nvs    \* what NVS holds; one entry is written atomically

\* 1 to MAX_DEVICE_SN_LENGTH characters: what set_sn_case lets through.
LegalSns == ShortSns \cup LongSns

SnTypeOK == nvs \in LegalSns \cup {None}

\* The device may already have a serial number when it is first switched on.
SnInit == nvs \in LegalSns \cup {None}

\* nvs_get_str into length = MAX_DEVICE_SN_LENGTH bytes, terminator included.
SnFits(sn) == sn \in ShortSns

\* _get_sn_case fails without an entry and with one that does not fit.
GetSnResult == IF SnFits(nvs) THEN "success" ELSE "error"

\* nvs_set_str: the value is written before the call returns.
WriteSn(sn) == nvs' = sn

\* nvs_flash_erase
EraseNvs == nvs' = None
=============================================================================
