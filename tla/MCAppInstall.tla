---------------------------- MODULE MCAppInstall ----------------------------
EXTENDS AppInstall

BaseFiles == <<"main.qml", "icon.png", "files.json">>
ListedFiles == <<"extra.qml">>
SomeVersions == <<<<1, 9, 0>>, <<2, 0, 0>>>>
=============================================================================
