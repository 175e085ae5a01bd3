---------------------------- MODULE MCHandshake ----------------------------
\* Three ports for plugins, two for scripts, the first of which a plugin may
\* take.
EXTENDS Handshake

CONSTANTS i1, i2

\* protocol::OSC_PREFIX, and the address the repository's tests send to.
PluginAddress == <<"loopercontrol">>
TestAddress == <<"loopercontrol", "command">>
=============================================================================
