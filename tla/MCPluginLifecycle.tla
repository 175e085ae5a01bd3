------------------------- MODULE MCPluginLifecycle -------------------------
\* Two ports, so that a bind can fall back once and then fail; three editors,
\* so that two can be closed while a third is open; two contents of the map.
EXTENDS PluginLifecycle

MCPorts == 7010..7011
MCRemotePorts == 7010..7012
=============================================================================
