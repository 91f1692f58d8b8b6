------------------------------- MODULE MCNet -------------------------------
\* Small instances of NetDev, Sockets, Datagrams and Tcp, one of them in a behaviour.
EXTENDS NetDev, Sockets, Datagrams, Tcp

VARIABLE part

netVars == <<part, devVars, sockVars, dgVars, tcpVars>>

NetInit ==
    /\ part \in {"device", "sockets", "datagrams", "connection"}
    /\ DevInit /\ SockInit /\ DgInit /\ TcpInit
    /\ part # "device" => ready

Device == part = "device" /\ DevNext /\ UNCHANGED <<part, sockVars, dgVars, tcpVars>>
Descriptors_ == part = "sockets" /\ SockNext /\ UNCHANGED <<part, devVars, dgVars, tcpVars>>
Packets == part = "datagrams" /\ DgNext /\ UNCHANGED <<part, devVars, sockVars, tcpVars>>
Connection == part = "connection" /\ TcpNext /\ UNCHANGED <<part, devVars, sockVars, dgVars>>
Timer == part = "connection" /\ TcpTick /\ UNCHANGED <<part, devVars, sockVars, dgVars>>

NetNext == Device \/ Descriptors_ \/ Packets \/ Connection

NetSpec == NetInit /\ [][NetNext]_netVars

\* The 10 ms timer interrupt runs tcp_tick().
NetFairSpec == NetSpec /\ WF_netVars(Timer)

\* The same, of connections alone.
OneConnection == NetInit /\ part = "connection" /\ [][Connection]_netVars /\ WF_netVars(Timer)

----------------------------------------------------------------------------

\* Safety: nothing is lost in the stack.  A receive buffer is the device's or the handler's
\* and what is reported as sent was sent; a listener has one connection that waits, and no
\* slot or port is lost or shared; a datagram reaches the socket it was for; a program reads
\* the bytes of its peer in order, and what it wrote is kept, as it was, until the peer has it.
NothingLost ==
    /\ BuffersConserved /\ OneEntryPerStation /\ ReportedIsSent
    /\ OneWaiting /\ PortsDistinct /\ NoSlotLost
    /\ StagingBounded /\ NothingOfTheLastOwner
    /\ TcpTypeOK /\ ReadsTheStream /\ SendsTheStream /\ NothingForgotten

\* Action properties: a frame stays as it is while the device has it; a socket gets its
\* datagrams in order; an established connection that is closed goes through its closing
\* state, and its slot is taken by nobody before.
SendsAsGiven == BufferIsStable /\ ReceivedInOrder /\ CloseIsGraceful /\ NeverStolen

\* Liveness: WaitsEnd and LastAckEnds of Tcp.
NobodyWaitsForEver == WaitsEnd /\ LastAckEnds
============================================================================
