------------------------------ MODULE IocPage ------------------------------
(***************************************************************************)
(* GET /api/v1/iocs: the page of IOCs, derived from ioc_config and from    *)
(* the rows of pv_status grouped on ioc_addr.                              *)
(*                                                                         *)
(* ioc_config maps an address to "absent", "enabled" or "disabled".  A row *)
(* of pv_status is [state, ioc], with the states of migration 014; state   *)
(* -1 stands for no row and ioc = NoIoc for NULL.                          *)
(***************************************************************************)
EXTENDS Integers, FiniteSets

CONSTANTS Addresses, NoIoc

UNKNOWN == 0
SEARCHING == 1
CONNECTED == 2
ARCHIVING == 3
DISCONNECTED == 4
TIMEOUT == 5
UNSUBSCRIBED == 6

\* What an IOC can be on the page.
DISABLED == 0
CONNECTING == 1
UP == 2
DEGRADED == 3
DOWN == 4
IDLE == 5

\* One group of the aggregate: how many PVs of an address are in a state.
Count(status, a, s) ==
  Cardinality({ x \in DOMAIN status : status[x].ioc = a /\ status[x].state = s })

Total(status, a) ==
  Cardinality({ x \in DOMAIN status : status[x].ioc = a /\ status[x].state >= 0 })

derive_state(declared, enabled, status, a) ==
  LET live == Count(status, a, CONNECTED) + Count(status, a, ARCHIVING)
      lost == Count(status, a, DISCONNECTED) + Count(status, a, TIMEOUT)
  IN  CASE declared /\ ~enabled -> DISABLED
        [] Total(status, a) = Count(status, a, UNSUBSCRIBED) -> IDLE
        [] live = 0 /\ lost > 0 -> DOWN
        [] live = 0 /\ lost = 0 -> CONNECTING
        [] live > 0 /\ lost > 0 -> DEGRADED
        [] OTHER -> UP

Declared(ioc_config) == { a \in Addresses : ioc_config[a] # "absent" }
Serving(status) == { a \in Addresses : Total(status, a) > 0 }

\* FULL OUTER JOIN of ioc_config and the aggregate.
Merged(ioc_config, status) == Declared(ioc_config) \cup Serving(status)

\* An IOC that is not declared counts as enabled.
list(ioc_config, status) ==
  { [address |-> a, declared |-> ioc_config[a] # "absent",
     state |-> derive_state(ioc_config[a] # "absent",
                            ioc_config[a] # "disabled", status, a)] :
      a \in Merged(ioc_config, status) }
=============================================================================
