---------------------------- MODULE MCClientTable ----------------------------
(***************************************************************************)
(* Instances of ClientTable: the messages the clients of each run send.    *)
(***************************************************************************)
EXTENDS ClientTable

\* Logins to the roles, and what moves them.
RoleRequests == {"exit", "tryb=gpio", "tryb=pilot", "tryb=pilot_full_0",
                 "tryb=pilot_full_1", "gpio_set", "query"}

\* Laptops, monitors and gpio clients, and a shutdown that walks the table.
LaptopRequests == {"tryb=laptop", "tryb=gpio_monitor", "tryb=gpio", "laptop_shutdown"}

\* A monitor has a laptop shut down.
ShutdownRequests == {"tryb=laptop", "tryb=gpio_monitor", "laptop_shutdown",
                     "laptop=shutdowning"}

\* Everything a monitor and a laptop say to each other, and what is ignored.
PairRequests == {"exit", "tryb=gpio", "tryb=laptop", "tryb=gpio_monitor",
                 "monitor_set", "laptop_status", "laptop_restart", "pilot_active",
                 "laptop=shutdowning", "laptop=not_shutdown"}

\* Clients that only come and go.
NoRequests == {}
=============================================================================
