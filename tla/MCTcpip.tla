------------------------------ MODULE MCTcpip -------------------------------
(* An instance of Tcpip: TestAppMain, which closes the sockets after an escape,
   above tcpip_thread, a task of the application and the receiving task below
   it, as app_cfg.h and TestSerialToWifi order them. *)
EXTENDS Tcpip

MCCallers == {"main", "app"}
MCTasks == MCCallers \cup {"tcpip", "sel"}
MCPrio == [t \in MCTasks |->
            CASE t = "main" -> 1 [] t = "tcpip" -> 2 [] t = "app" -> 3 [] t = "sel" -> 4]
MCQueues == {"mbox", "recvmbox"}
MCSems == MCCallers \cup {"sel"}
MCQSize == [q \in MCQueues |-> 1]

============================================================================
