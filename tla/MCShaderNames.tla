---------------------------- MODULE MCShaderNames ----------------------------
EXTENDS ShaderNames

MCSeps == {"/"}
MCOthers == {"a"}
=============================================================================
