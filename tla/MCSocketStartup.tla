--------------------------- MODULE MCSocketStartup ---------------------------
\* Five processes: two ranks both accept from and connect to ranks other than
\* 0, and two accept more than one connection.
EXTENDS SocketStartup

=============================================================================
