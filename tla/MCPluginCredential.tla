--------------------------- MODULE MCPluginCredential ---------------------------
EXTENDS PluginCredential
================================================================================
